---- MODULE Spec2Model ----
(***************************************************************************)
(* State-machine model of the nr-mcp server core: the buffered MCP logger  *)
(* strategy, the table-schema cache with its cache-aside prefetcher, the   *)
(* event bus, the bounded-concurrency dashboard aggregation and the stdio  *)
(* transport.  Each component has its own specification (SpecLogger,       *)
(* SpecCache, ...) over the shared variable tuple; a component's           *)
(* specification leaves the other components' variables unchanged.         *)
(***************************************************************************)
EXTENDS Integers, Sequences, FiniteSets, TLC

VARIABLES
    \* ---- McpLoggerStrategy (mcp-logger-strategy.ts) ----
    server,        \* this.server: NoServer or the attached sink
    bufferQueue,   \* this.bufferQueue: sequence of log entries, oldest first
    bufferSize,    \* this.bufferSize: the running total of entry sizes
    delivered,     \* history: ids of the entries a sink accepted, in order
    nextLogId,     \* history: number of log calls made so far
    buffered,      \* history: ids of the entries given to addToBuffer, in order
    logOp,         \* history: the last logger operation and what it did
    \* ---- NewRelicSchemaService / NewRelicNrqlService ----
    schemaCache,   \* this.schemaCache: table name -> cache entry or NoEntry
    cacheKeys,     \* this.schemaCache.keys(): the tables present, in insertion order
    now,           \* Date.now()
    calls,         \* the asynchronous calls in progress, one slot per caller
    started,       \* history: number of calls started so far
    lastPublished, \* history: payloads of the SCHEMA_UPDATED events the last step published
    handlerSaw,    \* history: the cache as the handlers of each of those events found it
    cacheOp,       \* history: the cache operation the last step performed
    \* ---- EventBus ----
    subscribers,   \* this.subscribers: Map prefix -> Set of handlers, in insertion order
    unsubFns,      \* the unsubscribe closures subscribe has returned, in call order
    busOp,         \* history: the last bus operation and what it did
    \* ---- queryNrqlsByService: PromisePool over the dashboards ----
    poolPc,        \* "idle", "running" (process() pending) or "resolved"
    dashboards,    \* dashboardsResult.dashboards: number of items, 1..n
    poolNext,      \* index of the next item the pool will start
    poolActive,    \* items whose task is in flight
    poolResults,   \* the pool's results array
    poolErrors,    \* the pool's errors array
    poolStarted,   \* history: the items whose task was started, in start order
    poolFailed,    \* history: the items whose detail fetch failed
    \* ---- StdioTransport ----
    tStarted,      \* this._started
    tListening,    \* _ondata and _onerror are registered on stdin
    otherListeners,\* other "data" listeners on stdin
    stdinPaused,   \* stdin.pause() has been called
    readBuffer,    \* this._readBuffer: the bytes not yet consumed
    wire,          \* bytes the peer has written that stdin has not emitted yet
    sentLines,     \* history: the lines the peer has written
    received,      \* history: the messages given to onmessage, in order
    errorsReported,\* history: the lines onerror was called for
    closeCount,    \* history: number of onclose invocations
    closeCalls,    \* history: number of close() calls
    transportOp,   \* history: the last transport call and whether it threw
    \* ---- StdioTransport.send over process.stdout ----
    stdoutWritten, \* the bytes given to stdout.write, in order
    needDrain,     \* a write has returned false and "drain" is still to come
    drains,        \* history: number of "drain" events so far
    sends,         \* history: the send calls made, in call order
    \* ---- McpServer's schema update handler ----
    notified,      \* history: the resources/updated notifications accepted, in order
    eventsPublished,\* history: number of SCHEMA_UPDATED events published to the handler
    notifyOp,      \* history: the last such event and what the handler did
    \* ---- ServiceContainer ----
    services,      \* this.services: service name -> instance or NoInstance
    newRelicConfig,\* this.newRelicConfig is set
    constructed,   \* history: number of NewRelicLogsService instances constructed
    instanceFor,   \* history: per type, the instance registered or made for it since the last clear
    everRegistered,\* history: the types register was called for
    containerOp    \* history: the last container call and what it did

loggerVars ==
    <<server, bufferQueue, bufferSize, delivered, nextLogId, buffered, logOp>>
cacheVars == <<schemaCache, cacheKeys, now, calls, started, lastPublished,
               handlerSaw, cacheOp>>

busVars == <<subscribers, unsubFns, busOp>>
poolVars ==
    <<poolPc, dashboards, poolNext, poolActive, poolResults, poolErrors,
      poolStarted, poolFailed>>

transportVars == <<tStarted, tListening, otherListeners, stdinPaused, readBuffer,
                   wire, sentLines, received, errorsReported, closeCount,
                   closeCalls, transportOp>>

stdoutVars == <<stdoutWritten, needDrain, drains, sends>>

notifyVars == <<notified, eventsPublished, notifyOp>>

containerVars == <<services, newRelicConfig, constructed, instanceFor,
                   everRegistered, containerOp>>

vars == <<loggerVars, cacheVars, busVars, poolVars, transportVars, stdoutVars,
          notifyVars, containerVars>>

\* what each component's actions leave alone
notLogger ==
    <<cacheVars, busVars, poolVars, transportVars, stdoutVars, notifyVars,
      containerVars>>
notCache ==
    <<loggerVars, busVars, poolVars, transportVars, stdoutVars, notifyVars,
      containerVars>>
notBus ==
    <<loggerVars, cacheVars, poolVars, transportVars, stdoutVars, notifyVars,
      containerVars>>
notPool ==
    <<loggerVars, cacheVars, busVars, transportVars, stdoutVars, notifyVars,
      containerVars>>
notTransport ==
    <<loggerVars, cacheVars, busVars, poolVars, stdoutVars, notifyVars,
      containerVars>>
notNotify ==
    <<loggerVars, cacheVars, busVars, poolVars, transportVars, stdoutVars,
      containerVars>>
notStdout ==
    <<loggerVars, cacheVars, busVars, poolVars, transportVars, notifyVars,
      containerVars>>
notContainer ==
    <<loggerVars, cacheVars, busVars, poolVars, transportVars, stdoutVars,
      notifyVars>>

(***************************************************************************)
(* Generic helpers                                                         *)
(***************************************************************************)
Range(s) == {s[i] : i \in 1..Len(s)}

RECURSIVE SumSeq(_)
SumSeq(s) == IF s = <<>> THEN 0 ELSE Head(s) + SumSeq(Tail(s))

Ids(q) == [i \in 1..Len(q) |-> q[i].id]

(***************************************************************************)
(* Buffered Delivery Logger: McpLoggerStrategy                             *)
(***************************************************************************)
\* bounds of the model
MaxLogs == 4

MiB == 1024 * 1024

\* private readonly MAX_BUFFER_SIZE = 4 * 1024 * 1024
MAX_BUFFER_SIZE == 4 * 1024 * 1024

NoServer == "null"
Sinks == {"sinkA", "sinkB"}

\* What server.sendLoggingMessage does with one message: it returns, throws
\* Error("Not connected"), or throws some other error.
Outcomes == {"ok", "NotConnected", "Other"}

\* "info".length and new Date().toISOString().length
LevelLen == 4
TimestampLen == 24
\* JSON.stringify growth of a one-object args array when the key "message"
\* is added to a non-empty object: ,"message":"..."  (13 characters + text)
MessageFieldOverhead == 13

\* The log calls the model makes: message length, whether args is non-empty,
\* JSON.stringify(args).length, and whether args is exactly one non-null
\* object that has no "message" key (the case the data conversion mutates).
LogInputs ==
    { [msgLen |-> MiB,     hasArgs |-> FALSE, argsLen |-> 0,   objArg |-> FALSE],
      [msgLen |-> 3 * MiB, hasArgs |-> FALSE, argsLen |-> 0,   objArg |-> FALSE],
      [msgLen |-> 5 * MiB, hasArgs |-> FALSE, argsLen |-> 0,   objArg |-> FALSE],
      [msgLen |-> 16,      hasArgs |-> TRUE,  argsLen |-> MiB, objArg |-> TRUE] }

NewEntry(in, id) ==
    [id |-> id, msgLen |-> in.msgLen, hasArgs |-> in.hasArgs,
     argsLen |-> in.argsLen, objArg |-> in.objArg, mutated |-> FALSE]

\* calculateLogSize: level + message + timestamp (+ JSON.stringify(args))
calculateLogSize(log) ==
    LevelLen + log.msgLen + TimestampLen
    + (IF log.hasArgs
         THEN log.argsLen
              + (IF log.mutated THEN log.msgLen + MessageFieldOverhead ELSE 0)
         ELSE 0)

\* The data conversion of log and flushBuffer: with exactly one object
\* argument, data IS that argument, and a missing "message" key is written
\* into it, which changes the entry's own args.
PrepareData(log) == [log EXCEPT !.mutated = @ \/ log.objArg]

\* The eviction loop of addToBuffer followed by the push.
RECURSIVE EvictFor(_, _, _)
EvictFor(q, size, logSize) ==
    IF size + logSize > MAX_BUFFER_SIZE /\ Len(q) > 0
      THEN EvictFor(Tail(q), size - calculateLogSize(Head(q)), logSize)
      ELSE [queue |-> q, size |-> size]

\* addToBuffer refusing the new entry when it does not fit, in place of
\* evicting
addToBufferRejectsWhenFull(q, size, logEntry) ==
    LET logSize == calculateLogSize(logEntry)
    IN  IF size + logSize > MAX_BUFFER_SIZE /\ Len(q) > 0
          THEN [queue |-> q, size |-> size]
          ELSE [queue |-> Append(q, logEntry), size |-> size + logSize]

addToBuffer(q, size, logEntry) ==
    LET logSize == calculateLogSize(logEntry)
        ev == EvictFor(q, size, logSize)
    IN  [queue |-> Append(ev.queue, logEntry), size |-> ev.size + logSize]

\* flushBuffer's loop with the entry shifted off the queue before it is
\* offered, so a not-connected failure loses it (mutant for C9).
RECURSIVE FlushLoopShiftFirst(_, _, _, _)
FlushLoopShiftFirst(q, size, outs, i) ==
    IF Len(q) = 0
      THEN [queue |-> q, size |-> size, attempts |-> <<>>, errorLogged |-> FALSE]
      ELSE LET logEntry == PrepareData(Head(q))
               att == [id |-> logEntry.id, outcome |-> outs[i]]
           IN  IF outs[i] = "ok"
                 THEN LET rest == FlushLoopShiftFirst(Tail(q),
                                            size - calculateLogSize(logEntry),
                                            outs, i + 1)
                      IN  [rest EXCEPT !.attempts = <<att>> \o @]
                 ELSE [queue |-> Tail(q), size |-> size - calculateLogSize(logEntry),
                       attempts |-> <<att>>,
                       errorLogged |-> (outs[i] # "NotConnected")]

\* flushBuffer's loop with the inner catch logging another error, dropping
\* the entry and going on with the next one (mutant for C10).
RECURSIVE FlushLoopDropAndContinue(_, _, _, _)
FlushLoopDropAndContinue(q, size, outs, i) ==
    IF Len(q) = 0
      THEN [queue |-> q, size |-> size, attempts |-> <<>>, errorLogged |-> FALSE]
      ELSE LET logEntry == PrepareData(Head(q))
               att == [id |-> logEntry.id, outcome |-> outs[i]]
           IN  IF outs[i] \in {"ok", "Other"}
                 THEN LET rest == FlushLoopDropAndContinue(Tail(q),
                                            size - calculateLogSize(logEntry),
                                            outs, i + 1)
                      IN  [rest EXCEPT !.attempts = <<att>> \o @,
                                       !.errorLogged = @ \/ outs[i] = "Other"]
                 ELSE [queue |-> <<logEntry>> \o Tail(q), size |-> size,
                       attempts |-> <<att>>, errorLogged |-> FALSE]

\* The while loop of flushBuffer from the i-th send on; outs[i] is what the
\* sink does with the i-th message offered.  The result holds the queue and
\* running total left behind, the sends attempted, and whether the outer
\* catch logged an error with console.error.
RECURSIVE FlushLoop(_, _, _, _)
FlushLoop(q, size, outs, i) ==
    IF Len(q) = 0
      THEN [queue |-> q, size |-> size, attempts |-> <<>>, errorLogged |-> FALSE]
      ELSE LET logEntry == PrepareData(Head(q))
               att == [id |-> logEntry.id, outcome |-> outs[i]]
           IN  IF outs[i] = "ok"
                 THEN LET rest == FlushLoop(Tail(q),
                                            size - calculateLogSize(logEntry),
                                            outs, i + 1)
                      IN  [rest EXCEPT !.attempts = <<att>> \o @]
                 ELSE [queue |-> <<logEntry>> \o Tail(q), size |-> size,
                       attempts |-> <<att>>,
                       errorLogged |-> (outs[i] # "NotConnected")]

flushBuffer(srv, q, size, outs) ==
    IF srv = NoServer \/ Len(q) = 0
      THEN [queue |-> q, size |-> size, attempts |-> <<>>, errorLogged |-> FALSE]
      ELSE FlushLoop(q, size, outs, 1)

NoLogOp ==
    [op |-> "none", sink |-> NoServer, pre |-> <<>>, attempts |-> <<>>,
     errorLogged |-> FALSE, threw |-> FALSE]

LoggerInit ==
    /\ server = NoServer
    /\ bufferQueue = <<>>
    /\ bufferSize = 0
    /\ delivered = <<>>
    /\ nextLogId = 0
    /\ buffered = <<>>
    /\ logOp = NoLogOp

AcceptedIds(attempts) ==
    LET ok == SelectSeq(attempts, LAMBDA a : a.outcome = "ok")
    IN  [i \in 1..Len(ok) |-> ok[i].id]

\* attachServer(server): record the sink, then flushBuffer()
AttachServer ==
    \E s \in Sinks, outs \in [1..Len(bufferQueue) -> Outcomes] :
        LET r == flushBuffer(s, bufferQueue, bufferSize, outs)
        IN  /\ server' = s
            /\ bufferQueue' = r.queue
            /\ bufferSize' = r.size
            /\ delivered' = delivered \o AcceptedIds(r.attempts)
            /\ logOp' = [op |-> "attach", sink |-> s, pre |-> bufferQueue,
                         attempts |-> r.attempts,
                         errorLogged |-> r.errorLogged, threw |-> FALSE]
            /\ UNCHANGED <<nextLogId, buffered>>
            /\ UNCHANGED notLogger

\* log(level, message, ...args) while no server is attached
LogBuffered ==
    \E in \in LogInputs :
        LET logEntry == NewEntry(in, nextLogId + 1)
            r == addToBuffer(bufferQueue, bufferSize, logEntry)
        IN  /\ nextLogId < MaxLogs
            /\ server = NoServer
            /\ nextLogId' = nextLogId + 1
            /\ bufferQueue' = r.queue
            /\ bufferSize' = r.size
            /\ buffered' = Append(buffered, logEntry.id)
            /\ logOp' = [op |-> "log", sink |-> server, pre |-> bufferQueue,
                         attempts |-> <<>>, errorLogged |-> FALSE,
                         threw |-> FALSE]
            /\ UNCHANGED <<server, delivered>>
            /\ UNCHANGED notLogger

\* log's try/catch with every failure of the send treated as not-connected:
\* the entry is buffered and nothing is rethrown (mutant for C11).
logCatchBuffersAnyError(q, size, logEntry, out) ==
    LET r == addToBuffer(q, size, logEntry)
    IN  [queue |-> IF out # "ok" THEN r.queue ELSE q,
         size |-> IF out # "ok" THEN r.size ELSE size,
         buffers |-> out # "ok",
         threw |-> FALSE]

\* log's try/catch around the direct send: a "Not connected" error puts the
\* entry in the buffer, any other error is rethrown, a send that returns
\* leaves the buffer alone.
logTryCatch(q, size, logEntry, out) ==
    LET r == addToBuffer(q, size, logEntry)
    IN  [queue |-> IF out = "NotConnected" THEN r.queue ELSE q,
         size |-> IF out = "NotConnected" THEN r.size ELSE size,
         buffers |-> out = "NotConnected",
         threw |-> (out = "Other")]

\* log(level, message, ...args) with a server attached: one direct send
LogDirect ==
    \E in \in LogInputs, out \in Outcomes :
        LET logEntry == PrepareData(NewEntry(in, nextLogId + 1))
            r == logTryCatch(bufferQueue, bufferSize, logEntry, out)
        IN  /\ nextLogId < MaxLogs
            /\ server # NoServer
            /\ nextLogId' = nextLogId + 1
            /\ bufferQueue' = r.queue
            /\ bufferSize' = r.size
            /\ delivered' = IF out = "ok" THEN Append(delivered, logEntry.id)
                                          ELSE delivered
            /\ buffered' = IF r.buffers THEN Append(buffered, logEntry.id)
                                        ELSE buffered
            /\ logOp' = [op |-> "log", sink |-> server, pre |-> bufferQueue,
                         attempts |-> <<[id |-> logEntry.id, outcome |-> out]>>,
                         errorLogged |-> FALSE, threw |-> r.threw]
            /\ UNCHANGED server
            /\ UNCHANGED notLogger

\* clearBuffer()
ClearBuffer ==
    /\ Len(bufferQueue) > 0
    /\ bufferQueue' = <<>>
    /\ bufferSize' = 0
    /\ logOp' = [NoLogOp EXCEPT !.op = "clear", !.sink = server,
                                !.pre = bufferQueue]
    /\ UNCHANGED <<server, delivered, nextLogId, buffered>>
    /\ UNCHANGED notLogger

LoggerNext == AttachServer \/ LogBuffered \/ LogDirect \/ ClearBuffer

\* The bytes the buffer really holds: the sum of its entries' sizes.
BufferBytes == SumSeq([i \in 1..Len(bufferQueue) |-> calculateLogSize(bufferQueue[i])])

(***************************************************************************)
(* Schema Cache and Cache-Aside Query Prefetcher:                          *)
(* NewRelicSchemaService and NewRelicNrqlService.executeNrqlQuery          *)
(***************************************************************************)
\* bounds of the model
MaxCalls == 2
MaxTicks == 2

\* private readonly CACHE_EXPIRATION_MS = 24 * 60 * 60 * 1000
CACHE_EXPIRATION_MS == 24 * 60 * 60 * 1000
\* the clock advances in steps of twelve hours
TickMs == 12 * 60 * 60 * 1000

TableNames == {"Events", "Logs"}
Callers == {"c1", "c2"}

\* Column lists the remote keyset() query may return
Keysets == { <<"ts", "level", "msg">>, <<"ts", "msg", "ts">> }
\* What one remote execution (executeNerdGraphQuery) does: it rejects,
\* returns no rows, or returns one row carrying a keyset.
RemoteFail == [kind |-> "fail", keyset |-> <<>>]
RemoteNoRows == [kind |-> "norows", keyset |-> <<>>]
RemoteKeysets == {[kind |-> "keyset", keyset |-> k] : k \in Keysets}
RemoteOutcomes == {RemoteFail, RemoteNoRows} \cup RemoteKeysets

NoEntry == [present |-> FALSE, schema |-> <<>>, timestamp |-> 0, expiresAt |-> 0]

\* A query is the sequence of its whitespace-separated tokens.
IsFromKeyword(tok) == tok \in {"FROM", "from", "From"}
\* The longest prefix of a token made of [A-Za-z0-9_], "" when there is none
LeadingIdent(tok) ==
    CASE tok \in {"(", ")", "*", "="} -> ""
      [] tok = "keyset()" -> "keyset"
      [] tok = "count(*)" -> "count"
      [] OTHER -> tok

DescribeQuery(tableName) == <<"SELECT", "keyset()", "FROM", tableName, "LIMIT", "1">>

QCount == <<"SELECT", "count(*)", "FROM", "Events", "WHERE", "level">>
QTwoTables == <<"FROM", "Events", "WHERE", "(", "from", "Logs", ")", "From", "Events">>
QSubquery == <<"SELECT", "*", "FROM", "(", "FROM", "Logs", ")">>
QNoTable == <<"SELECT", "1">>
UserQueries == {QCount, QTwoTables, QSubquery, QNoTable}

\* query.matchAll(/\bFROM\s+([A-Za-z0-9_]+)/gi) mapped to match[1]: the scan
\* goes left to right and a match consumes the keyword and the name.
RECURSIVE FromMatches(_, _)
FromMatches(query, i) ==
    IF i > Len(query) THEN <<>>
    ELSE IF /\ IsFromKeyword(query[i])
            /\ i < Len(query)
            /\ LeadingIdent(query[i + 1]) # ""
           THEN <<LeadingIdent(query[i + 1])>> \o FromMatches(query, i + 2)
           ELSE FromMatches(query, i + 1)

\* self.indexOf(value): the first position of value in self
IndexOf(self, value) == CHOOSE i \in 1..Len(self) :
                           /\ self[i] = value
                           /\ \A j \in 1..(i - 1) : self[j] # value

\* .filter((value, index, self) => self.indexOf(value) === index)
RECURSIVE FilterFirst(_, _)
FilterFirst(self, index) ==
    IF index > Len(self) THEN <<>>
    ELSE (IF IndexOf(self, self[index]) = index THEN <<self[index]>> ELSE <<>>)
         \o FilterFirst(self, index + 1)

\* The same extraction without the deduplicating filter (mutant for C7).
extractWithoutDedup(query) == FromMatches(query, 1)

extractTableNamesFromQuery(query) == FilterFirst(FromMatches(query, 1), 1)

\* isTableSchemaCached: !!cachedSchema && Date.now() < cachedSchema.expiresAt
\* a freshness test that still accepts an entry at its expiry instant
isCachedUntilExpiryIncluded(cache, tableName, t) ==
    /\ cache[tableName].present
    /\ t <= cache[tableName].expiresAt

isTableSchemaCached(cache, tableName, t) ==
    /\ cache[tableName].present
    /\ t < cache[tableName].expiresAt

\* cacheTableSchema that leaves a fresh entry as it is (mutant for C18)
\* cacheTableSchema writing an entry whose window is already over
cacheStoresExpired(cache, tableName, schema, t) ==
    [cache EXCEPT ![tableName] =
        [present |-> TRUE, schema |-> schema, timestamp |-> t,
         expiresAt |-> t]]

cacheKeepsFreshEntry(cache, tableName, schema, t) ==
    IF cache[tableName].present /\ t < cache[tableName].expiresAt
      THEN cache
      ELSE [cache EXCEPT ![tableName] =
               [present |-> TRUE, schema |-> schema, timestamp |-> t,
                expiresAt |-> t + CACHE_EXPIRATION_MS]]

\* cacheTableSchema: schemaCache.set(tableName, {schema, timestamp, expiresAt})
cacheTableSchema(cache, tableName, schema, t) ==
    [cache EXCEPT ![tableName] =
        [present |-> TRUE, schema |-> schema, timestamp |-> t,
         expiresAt |-> t + CACHE_EXPIRATION_MS]]

\* What a handler of SCHEMA_UPDATED(tableName) finds when publish calls it
\* on the cache as it is at that point of the publishing method: the
\* table's entry and the number of entries.
HandlerView(cache, tableName) ==
    [table |-> tableName, entry |-> cache[tableName],
     entries |-> Cardinality({tn \in TableNames : cache[tn].present})]

Idle == [pc |-> "idle"]

\* The continuation of the caller's await runs as a microtask when the call
\* settles, before any later I/O completion, timer or request is handled.
NoneSettled == \A c \in Callers : calls[c].pc # "done"

\* Callers are interchangeable: a new call takes the first idle slot.
FirstIdle(c) == calls[c].pc = "idle" /\ (c = "c1" \/ calls["c1"].pc # "idle")

\* A call in progress.  kind/table/query are its arguments; names and idx
\* are the loop of checkAndCacheTableSchema; the remaining fields record
\* what the call has done so far.
NewCall(kind, tableName, query, names) ==
    [pc |-> "start", kind |-> kind, table |-> tableName, query |-> query,
     names |-> names, idx |-> 1,
     lookups |-> <<>>,        \* tables a describe-columns lookup was issued for
     failed |-> {},           \* tables whose lookup rejected
     skipped |-> {},          \* tables found fresh by the loop
     stored |-> {},           \* tables this call wrote a cache entry for
     published |-> <<>>,      \* payloads of the events this call published
     remoteCalls |-> 0,       \* remote executions issued by this call
     startedFresh |-> FALSE,  \* getTableSchema found a fresh entry
     overlap |-> FALSE,       \* history: the call ran while another
                              \* getTableSchema miss for its table did
     foundExpired |-> FALSE,  \* history: getTableSchema found an entry that
                              \* was no longer fresh
     lookupsSettled |-> 0,    \* history: lookups whose remote execution
                              \* has settled
     storedAt |-> [tn \in TableNames |-> -1],
                              \* history, kept until the call's own query
                              \* is sent: when the call's lookup of a table
                              \* stored its columns (-1: it did not)
     staleAtSend |-> {},      \* history: of the tables so stored, those not
                              \* fresh when the call's own query was sent,
     outlivedAtSend |-> {},   \* those stored a cache lifetime or more before,
     clearedAtSend |-> {},    \* and those with no entry at that moment
     mainOutcome |-> "none",  \* what the call's own remote query did
     outcome |-> "pending",   \* "ok" or "error" once the call has settled
     result |-> <<>>]

\* executeNrqlQuery after the schema check: the call's own query goes to
\* the remote executor.
SendMain(call, i, cache, t) ==
    LET lookedUp == {tn \in TableNames : call.storedAt[tn] >= 0}
    IN  [call EXCEPT
            !.pc = "awaitMain", !.idx = i, !.remoteCalls = @ + 1,
            !.storedAt = [tn \in TableNames |-> -1],
            !.staleAtSend =
                {tn \in lookedUp : ~isTableSchemaCached(cache, tn, t)},
            !.outlivedAtSend =
                {tn \in lookedUp : t - call.storedAt[tn] >= CACHE_EXPIRATION_MS},
            !.clearedAtSend = {tn \in lookedUp : ~cache[tn].present}]

\* The prefetch loop without the inner try/catch: a rejected lookup leaves
\* the loop for the outer catch, and the user's query is sent at once
\* (mutant for C8).
RECURSIVE loopAbortsOnFailure(_, _, _, _)
loopAbortsOnFailure(call, i, cache, t) ==
    IF i > Len(call.names) \/ call.failed # {}
      THEN SendMain(call, i, cache, t)
      ELSE IF isTableSchemaCached(cache, call.names[i], t)
             THEN loopAbortsOnFailure(
                      [call EXCEPT !.skipped = @ \cup {call.names[i]}],
                      i + 1, cache, t)
             ELSE [call EXCEPT !.pc = "awaitLookup", !.idx = i,
                               !.lookups = Append(@, call.names[i]),
                               !.remoteCalls = @ + 1]

\* The prefetch loop with its lookup sent through executeNrqlQuery with the
\* schema check enabled: the lookup is looked up first, one level deep.
RECURSIVE loopLooksUpWithPrefetch(_, _, _, _)
loopLooksUpWithPrefetch(call, i, cache, t) ==
    IF i > Len(call.names)
      THEN SendMain(call, i, cache, t)
      ELSE IF isTableSchemaCached(cache, call.names[i], t)
             THEN loopLooksUpWithPrefetch(
                      [call EXCEPT !.skipped = @ \cup {call.names[i]}],
                      i + 1, cache, t)
             ELSE [call EXCEPT !.pc = "awaitLookup", !.idx = i,
                               !.lookups = Append(@, call.names[i]),
                               !.remoteCalls = @ + 2]

\* The for loop of checkAndCacheTableSchema from its i-th name up to the
\* next await: the lookup of the first name that is not cached, or, with
\* the names exhausted, the call's own remote query in executeNrqlQuery.
RECURSIVE checkAndCacheLoop(_, _, _, _)
checkAndCacheLoop(call, i, cache, t) ==
    IF i > Len(call.names)
      THEN SendMain(call, i, cache, t)
      ELSE IF isTableSchemaCached(cache, call.names[i], t)
             THEN checkAndCacheLoop(
                      [call EXCEPT !.skipped = @ \cup {call.names[i]}],
                      i + 1, cache, t)
             ELSE [call EXCEPT !.pc = "awaitLookup", !.idx = i,
                               !.lookups = Append(@, call.names[i]),
                               !.remoteCalls = @ + 1]

\* executeNrqlQuery(query, timeout, skipSchemaCache) up to its first await
executeNrqlQuery(kind, tableName, query, skipSchemaCache, cache, t) ==
    LET names == IF skipSchemaCache THEN <<>>
                                    ELSE extractTableNamesFromQuery(query)
    IN  checkAndCacheLoop(NewCall(kind, tableName, query, names), 1, cache, t)

\* Map.set: a new key goes to the end, a key already present keeps its place
MapSetKey(keys, tableName) ==
    IF tableName \in Range(keys) THEN keys ELSE Append(keys, tableName)
\* Map.delete
MapDeleteKey(keys, tableName) == SelectSeq(keys, LAMBDA k : k # tableName)

\* The record of a cache operation: "store" is cacheTableSchema(table,
\* schema), with whether the table had a fresh entry when it was called;
\* "clear" is clearTableSchemaCache(table) on a cache that was pre with
\* keys keys; "clearAll" is
\* clearAllSchemaCaches() on a cache whose keys were keys; "isCached" is
\* isTableSchemaCached(table) with the value it returned in wasFresh.
NoCacheOp ==
    [op |-> "none", table |-> "-", schema |-> <<>>, keys |-> <<>>,
     wasFresh |-> FALSE, pre |-> <<>>]
StoreOp(tableName, schema) ==
    [NoCacheOp EXCEPT !.op = "store", !.table = tableName, !.schema = schema,
                      !.wasFresh = isTableSchemaCached(schemaCache, tableName, now)]

CacheInit ==
    /\ schemaCache = [tn \in TableNames |-> NoEntry]
    /\ cacheKeys = <<>>
    /\ cacheOp = NoCacheOp
    /\ now = 0
    /\ calls = [c \in Callers |-> Idle]
    /\ started = 0
    /\ lastPublished = <<>>
    /\ handlerSaw = <<>>

\* the getTableSchema(tableName) calls waiting for a remote execution
InFlightFor(tableName) ==
    {o \in Callers : /\ calls[o].pc \in {"awaitLookup", "awaitMain"}
                     /\ calls[o].kind = "getSchema"
                     /\ calls[o].table = tableName}

\* The calls after caller c has started call as a miss for tableName: the
\* history fields are set on it and on the calls it overlaps with.
WithMiss(c, tableName, call) ==
    [o \in Callers |->
        IF o = c THEN [call EXCEPT !.overlap = InFlightFor(tableName) # {},
                                   !.foundExpired = schemaCache[tableName].present]
        ELSE IF o \in InFlightFor(tableName)
               THEN [calls[o] EXCEPT !.overlap = TRUE]
               ELSE calls[o]]

\* A getTableSchema whose miss joins a fetch already in flight for the
\* table instead of issuing its own.
GetTableSchemaStartJoinsInFlight(c, tableName) ==
    /\ FirstIdle(c)
    /\ NoneSettled
    /\ started < MaxCalls
    /\ started' = started + 1
    /\ calls' =
          IF isTableSchemaCached(schemaCache, tableName, now)
            THEN [calls EXCEPT ![c] =
                    [NewCall("getSchema", tableName, <<>>, <<>>) EXCEPT
                        !.pc = "done", !.startedFresh = TRUE, !.outcome = "ok",
                        !.result = schemaCache[tableName].schema]]
            ELSE IF InFlightFor(tableName) # {}
              THEN WithMiss(c, tableName,
                            [NewCall("getSchema", tableName, <<>>, <<>>) EXCEPT
                                !.pc = "awaitMain"])
              ELSE WithMiss(c, tableName,
                            executeNrqlQuery("getSchema", tableName,
                                             DescribeQuery(tableName), FALSE,
                                             schemaCache, now))
    /\ lastPublished' = <<>>
    /\ handlerSaw' = <<>>
    /\ cacheOp' = NoCacheOp
    /\ UNCHANGED <<schemaCache, cacheKeys, now>>
    /\ UNCHANGED notCache

\* getTableSchema(tableName) up to its first await: a fresh entry is
\* returned at once; otherwise fetchTableSchema runs the keyset query
\* through nrqlService.executeNrqlQuery(query), schema check included.
GetTableSchemaStart(c, tableName) ==
    /\ FirstIdle(c)
    /\ NoneSettled
    /\ started < MaxCalls
    /\ started' = started + 1
    /\ calls' =
          IF isTableSchemaCached(schemaCache, tableName, now)
            THEN [calls EXCEPT ![c] =
                    [NewCall("getSchema", tableName, <<>>, <<>>) EXCEPT
                        !.pc = "done", !.startedFresh = TRUE, !.outcome = "ok",
                        !.result = schemaCache[tableName].schema]]
            ELSE WithMiss(c, tableName,
                          executeNrqlQuery("getSchema", tableName,
                                           DescribeQuery(tableName), FALSE,
                                           schemaCache, now))
    /\ lastPublished' = <<>>
    /\ handlerSaw' = <<>>
    /\ cacheOp' = NoCacheOp
    /\ UNCHANGED <<schemaCache, cacheKeys, now>>
    /\ UNCHANGED notCache

\* runNrqlQueryTool: nrqlService.executeNrqlQuery(query, timeout)
ExecuteQueryStart(c, query) ==
    /\ FirstIdle(c)
    /\ NoneSettled
    /\ started < MaxCalls
    /\ started' = started + 1
    /\ calls' = [calls EXCEPT ![c] =
          executeNrqlQuery("query", "-", query, FALSE, schemaCache, now)]
    /\ lastPublished' = <<>>
    /\ handlerSaw' = <<>>
    /\ cacheOp' = NoCacheOp
    /\ UNCHANGED <<schemaCache, cacheKeys, now>>
    /\ UNCHANGED notCache

\* The remote execution of a lookup (executeNrqlQuery(schemaQuery, 30000,
\* true)) settles: a keyset is cached and published, a rejection is caught
\* and logged, and the loop goes on with the next name.
LookupSettles(c, out) ==
    LET call == calls[c]
        tableName == call.names[call.idx]
        hasKeyset == out.kind = "keyset"
        cache2 == IF hasKeyset
                    THEN cacheTableSchema(schemaCache, tableName, out.keyset, now)
                    ELSE schemaCache
        call2 == [call EXCEPT
                    !.stored = IF hasKeyset THEN @ \cup {tableName} ELSE @,
                    !.published = IF hasKeyset THEN Append(@, tableName) ELSE @,
                    !.failed = IF out = RemoteFail THEN @ \cup {tableName} ELSE @,
                    !.lookupsSettled = @ + 1,
                    !.storedAt = IF hasKeyset THEN [@ EXCEPT ![tableName] = now]
                                              ELSE @]
    IN  /\ call.pc = "awaitLookup"
        /\ NoneSettled
        /\ schemaCache' = cache2
        /\ cacheKeys' = IF hasKeyset THEN MapSetKey(cacheKeys, tableName)
                                      ELSE cacheKeys
        /\ lastPublished' = IF hasKeyset THEN <<tableName>> ELSE <<>>
        /\ handlerSaw' = IF hasKeyset THEN <<HandlerView(cache2, tableName)>>
                                      ELSE <<>>
        /\ cacheOp' = IF hasKeyset THEN StoreOp(tableName, out.keyset)
                                    ELSE NoCacheOp
        /\ calls' = [calls EXCEPT ![c] =
                        checkAndCacheLoop(call2, call.idx + 1, cache2, now)]
        /\ UNCHANGED <<now, started>>
        /\ UNCHANGED notCache

\* The call's own remote query settles.  executeNrqlQuery returns the
\* result or rethrows; for getTableSchema, fetchTableSchema turns the
\* result into a column list, which is cached and published.
MainSettles(c, out) ==
    LET call == calls[c]
        ok == out # RemoteFail
        schema == IF out.kind = "keyset" THEN out.keyset ELSE <<>>
        store == ok /\ call.kind = "getSchema"
        cache2 == IF store
                    THEN cacheTableSchema(schemaCache, call.table, schema, now)
                    ELSE schemaCache
    IN  /\ call.pc = "awaitMain"
        /\ NoneSettled
        /\ schemaCache' = cache2
        /\ cacheKeys' = IF store THEN MapSetKey(cacheKeys, call.table)
                                  ELSE cacheKeys
        /\ lastPublished' = IF store THEN <<call.table>> ELSE <<>>
        /\ handlerSaw' = IF store THEN <<HandlerView(cache2, call.table)>>
                                  ELSE <<>>
        /\ cacheOp' = IF store THEN StoreOp(call.table, schema) ELSE NoCacheOp
        /\ calls' = [calls EXCEPT ![c] =
              [call EXCEPT
                  !.pc = "done",
                  !.mainOutcome = IF ok THEN "ok" ELSE "fail",
                  !.outcome = IF ok THEN "ok" ELSE "error",
                  !.stored = IF store THEN @ \cup {call.table} ELSE @,
                  !.published = IF store THEN Append(@, call.table) ELSE @,
                  !.result = IF call.kind = "getSchema" THEN schema ELSE <<>>]]
        /\ UNCHANGED <<now, started>>
        /\ UNCHANGED notCache

\* The caller takes the settled call's result or error.
CallReturns(c) ==
    /\ calls[c].pc = "done"
    /\ calls' = [calls EXCEPT ![c] = Idle]
    /\ lastPublished' = <<>>
    /\ handlerSaw' = <<>>
    /\ cacheOp' = NoCacheOp
    /\ UNCHANGED <<schemaCache, cacheKeys, now, started>>
    /\ UNCHANGED notCache

\* Time passes.
Tick ==
    /\ now < MaxTicks * TickMs
    /\ NoneSettled
    /\ now' = now + TickMs
    /\ lastPublished' = <<>>
    /\ handlerSaw' = <<>>
    /\ cacheOp' = NoCacheOp
    /\ UNCHANGED <<schemaCache, cacheKeys, calls, started>>
    /\ UNCHANGED notCache

\* isTableSchemaCached(tableName)
IsTableSchemaCached(tableName) ==
    /\ NoneSettled
    /\ cacheOp' = [NoCacheOp EXCEPT
                      !.op = "isCached", !.table = tableName,
                      !.wasFresh = isTableSchemaCached(schemaCache, tableName, now)]
    /\ lastPublished' = <<>>
    /\ handlerSaw' = <<>>
    /\ UNCHANGED <<schemaCache, cacheKeys, now, calls, started>>
    /\ UNCHANGED notCache

\* clearTableSchemaCache publishing outside the has() test
clearPublishesWithoutEntry(cache, keys, tableName) ==
    [cache |-> [cache EXCEPT ![tableName] = NoEntry],
     keys |-> MapDeleteKey(keys, tableName),
     published |-> <<tableName>>,
     seen |-> <<HandlerView([cache EXCEPT ![tableName] = NoEntry], tableName)>>]

\* clearTableSchemaCache publishing first and deleting the entry afterwards
clearPublishesBeforeDelete(cache, keys, tableName) ==
    IF cache[tableName].present
      THEN [cache |-> [cache EXCEPT ![tableName] = NoEntry],
            keys |-> MapDeleteKey(keys, tableName),
            published |-> <<tableName>>,
            seen |-> <<HandlerView(cache, tableName)>>]
      ELSE [cache |-> cache, keys |-> keys, published |-> <<>>, seen |-> <<>>]

\* clearTableSchemaCache: if the Map has the table, delete it and publish
clearTableSchemaCache(cache, keys, tableName) ==
    IF cache[tableName].present
      THEN [cache |-> [cache EXCEPT ![tableName] = NoEntry],
            keys |-> MapDeleteKey(keys, tableName),
            published |-> <<tableName>>,
            seen |-> <<HandlerView([cache EXCEPT ![tableName] = NoEntry],
                                   tableName)>>]
      ELSE [cache |-> cache, keys |-> keys, published |-> <<>>, seen |-> <<>>]

\* clearTableSchemaCache(tableName)
ClearTableSchemaCache(tableName) ==
    LET r == clearTableSchemaCache(schemaCache, cacheKeys, tableName)
    IN
    /\ NoneSettled
    /\ schemaCache' = r.cache
    /\ cacheKeys' = r.keys
    /\ lastPublished' = r.published
    /\ handlerSaw' = r.seen
    /\ cacheOp' = [NoCacheOp EXCEPT !.op = "clear", !.table = tableName,
                                    !.pre = schemaCache, !.keys = cacheKeys]
    /\ UNCHANGED <<now, calls, started>>
    /\ UNCHANGED notCache

\* getCacheStats() at time t: one row per Map entry in insertion order,
\* expiresIn = Math.max(0, Math.floor((expiresAt - now) / 1000))
getCacheStats(cache, keys, t) ==
    [totalCachedSchemas |-> Len(keys),
     cachedTables |->
        [k \in 1..Len(keys) |->
            [tableName |-> keys[k],
             columnCount |-> Len(cache[keys[k]].schema),
             expiresIn |-> IF cache[keys[k]].expiresAt - t > 0
                             THEN (cache[keys[k]].expiresAt - t) \div 1000
                             ELSE 0]]]

\* clearAllSchemaCaches with one event published for the whole cache
\* (mutant for C17).
clearAllPublishesOnce(keys) ==
    [cache |-> [tn \in TableNames |-> NoEntry], keys |-> <<>>,
     published |-> IF keys = <<>> THEN <<>> ELSE <<keys[Len(keys)]>>,
     seen |-> IF keys = <<>> THEN <<>>
              ELSE <<HandlerView([tn \in TableNames |-> NoEntry],
                                 keys[Len(keys)])>>]

\* clearAllSchemaCaches: Array.from(keys()), clear(), then one publish per
\* table name taken
clearAllSchemaCaches(keys) ==
    [cache |-> [tn \in TableNames |-> NoEntry], keys |-> <<>>,
     published |-> keys,
     seen |-> [i \in 1..Len(keys) |->
                  HandlerView([tn \in TableNames |-> NoEntry], keys[i])]]

\* clearAllSchemaCaches()
ClearAllSchemaCaches ==
    LET r == clearAllSchemaCaches(cacheKeys)
    IN  /\ schemaCache' = r.cache
        /\ cacheKeys' = r.keys
        /\ lastPublished' = r.published
        /\ handlerSaw' = r.seen
        /\ cacheOp' = [NoCacheOp EXCEPT !.op = "clearAll", !.keys = cacheKeys]
        /\ UNCHANGED <<now, calls, started>>
        /\ UNCHANGED notCache

\* The requests the server handles, two at a time.  The clear operations
\* have no caller in the program; they are exercised under CacheAdminNext.
CacheNext ==
    \/ \E c \in Callers, tn \in TableNames : GetTableSchemaStart(c, tn)
    \/ \E c \in Callers, q \in UserQueries : ExecuteQueryStart(c, q)
    \/ \E c \in Callers, out \in RemoteOutcomes : LookupSettles(c, out)
    \/ \E c \in Callers, out \in RemoteOutcomes : MainSettles(c, out)
    \/ \E c \in Callers : CallReturns(c)
    \/ Tick

\* The cache under one caller at a time, with the whole-cache operations
CacheAdminNext ==
    \/ \E tn \in TableNames : GetTableSchemaStart("c1", tn)
    \/ \E q \in UserQueries : ExecuteQueryStart("c1", q)
    \/ \E out \in RemoteOutcomes : LookupSettles("c1", out)
    \/ \E out \in RemoteOutcomes : MainSettles("c1", out)
    \/ CallReturns("c1")
    \/ Tick
    \/ \E tn \in TableNames : ClearTableSchemaCache(tn)
    \/ ClearAllSchemaCaches
    \/ \E tn \in TableNames : IsTableSchemaCached(tn)

(***************************************************************************)
(* Event Bus: EventBus.subscribe / unsubscribe / publish                   *)
(***************************************************************************)
\* bound of the model: the subscribe calls made
MaxSubscribes == 3

\* Strings are sequences of characters, so that startsWith is computed.
Str_a_slash == <<"a", "/">>
Str_a == <<"a">>
Str_b_slash == <<"b", "/">>
Prefixes == {Str_a_slash, Str_a, Str_b_slash}
Topics == { <<"a", "/", "1">>, <<"a", "/", "2">>, <<"b", "/", "x">>, <<"a", "b">> }
Payloads == {"Events", "Logs"}
Handlers == {"h1", "h2"}

\* a match that respects path segments: the prefix must end at a "/" or at
\* the end of the type (mutant for C20)
segmentAwareMatch(type, prefix) ==
    /\ Len(prefix) <= Len(type)
    /\ SubSeq(type, 1, Len(prefix)) = prefix
    /\ \/ Len(prefix) = Len(type)
       \/ Len(prefix) > 0 /\ prefix[Len(prefix)] = "/"
       \/ type[Len(prefix) + 1] = "/"

\* type.startsWith(prefix)
StartsWith(type, prefix) ==
    /\ Len(prefix) <= Len(type)
    /\ SubSeq(type, 1, Len(prefix)) = prefix

HasPrefix(subs, prefix) == \E i \in 1..Len(subs) : subs[i].prefix = prefix
PrefixIndex(subs, prefix) == CHOOSE i \in 1..Len(subs) : subs[i].prefix = prefix

\* Set.add: a handler already in the set is not added again
SetAdd(handlers, handler) ==
    IF handler \in Range(handlers) THEN handlers ELSE Append(handlers, handler)
\* Set.delete
SetDelete(handlers, handler) == SelectSeq(handlers, LAMBDA h : h # handler)

\* subscribe(eventPrefix, handler): the map after the call
subscribe(subs, eventPrefix, handler) ==
    LET subs1 == IF HasPrefix(subs, eventPrefix) THEN subs
                 ELSE Append(subs, [prefix |-> eventPrefix, handlers |-> <<>>])
        k == PrefixIndex(subs1, eventPrefix)
    IN  [subs1 EXCEPT ![k].handlers = SetAdd(@, handler)]

\* unsubscribe(eventPrefix, handler): the map after the call
unsubscribe(subs, eventPrefix, handler) ==
    IF ~HasPrefix(subs, eventPrefix) THEN subs
    ELSE LET k == PrefixIndex(subs, eventPrefix)
             left == SetDelete(subs[k].handlers, handler)
         IN  IF Len(left) = 0
               THEN SelectSeq(subs, LAMBDA e : e.prefix # eventPrefix)
               ELSE [subs EXCEPT ![k].handlers = left]

\* The registrations in the order publish iterates them: map entries in
\* insertion order, each entry's handlers in insertion order.
RECURSIVE Registrations(_)
Registrations(subs) ==
    IF subs = <<>> THEN <<>>
    ELSE [i \in 1..Len(Head(subs).handlers) |->
             [prefix |-> Head(subs).prefix, handler |-> Head(subs).handlers[i]]]
         \o Registrations(Tail(subs))

\* publish's loops with the inner try/catch missing: the first handler that
\* throws ends the delivery in the outer catch (mutant for C4).
RECURSIVE publishLoopNoInnerCatch(_, _, _, _)
publishLoopNoInnerCatch(regs, type, data, throwers) ==
    IF regs = <<>> THEN <<>>
    ELSE LET r == Head(regs)
         IN  IF StartsWith(type, r.prefix)
               THEN <<[prefix |-> r.prefix, handler |-> r.handler,
                       payload |-> [type |-> type, data |-> data],
                       threw |-> r.handler \in throwers]>>
                    \o (IF r.handler \in throwers THEN <<>>
                        ELSE publishLoopNoInnerCatch(Tail(regs), type, data,
                                                     throwers))
               ELSE publishLoopNoInnerCatch(Tail(regs), type, data, throwers)

\* publish's loops over the registrations: the handler invocations made, in
\* order, each with the payload { type, data } the handler was given and
\* whether the handler threw (it is then caught and logged).
RECURSIVE publishLoop(_, _, _, _)
publishLoop(regs, type, data, throwers) ==
    IF regs = <<>> THEN <<>>
    ELSE LET r == Head(regs)
         IN  IF StartsWith(type, r.prefix)
               THEN <<[prefix |-> r.prefix, handler |-> r.handler,
                       payload |-> [type |-> type, data |-> data],
                       threw |-> r.handler \in throwers]>>
                    \o publishLoop(Tail(regs), type, data, throwers)
               ELSE publishLoop(Tail(regs), type, data, throwers)

\* The record of a bus call.  For a call of an unsubscribe closure, fn is
\* the closure's position in unsubFns and again tells whether that closure
\* had been called before.  For a subscribe, missed tells whether the step
\* before it published an event the new prefix matches.
NoBusOp ==
    [op |-> "none", type |-> <<>>, data |-> "", prefix |-> <<>>, handler |-> "",
     pre |-> <<>>, invoked |-> <<>>, propagated |-> FALSE, fn |-> 0,
     again |-> FALSE, missed |-> FALSE]

BusInit ==
    /\ subscribers = <<>>
    /\ unsubFns = <<>>
    /\ busOp = NoBusOp

\* the last step published an event that eventPrefix matches
JustPublishedFor(eventPrefix) ==
    busOp.op = "publish" /\ StartsWith(busOp.type, eventPrefix)

\* A subscribe that hands the new handler the event published last, as a
\* bus keeping the latest event per topic would.
SubscribeReplaysLastEvent(eventPrefix, handler) ==
    /\ Len(unsubFns) < MaxSubscribes
    /\ subscribers' = subscribe(subscribers, eventPrefix, handler)
    /\ unsubFns' = Append(unsubFns, [prefix |-> eventPrefix, handler |-> handler,
                                     called |-> FALSE])
    /\ busOp' = [NoBusOp EXCEPT
                    !.op = "subscribe", !.prefix = eventPrefix,
                    !.handler = handler, !.pre = subscribers,
                    !.missed = JustPublishedFor(eventPrefix),
                    !.invoked = IF JustPublishedFor(eventPrefix)
                                  THEN <<[prefix |-> eventPrefix,
                                          handler |-> handler,
                                          payload |-> [type |-> busOp.type,
                                                       data |-> busOp.data],
                                          threw |-> FALSE]>>
                                  ELSE <<>>]
    /\ UNCHANGED notBus

\* subscribe(eventPrefix, handler), which returns a new closure
Subscribe(eventPrefix, handler) ==
    /\ Len(unsubFns) < MaxSubscribes
    /\ subscribers' = subscribe(subscribers, eventPrefix, handler)
    /\ unsubFns' = Append(unsubFns, [prefix |-> eventPrefix, handler |-> handler,
                                     called |-> FALSE])
    /\ busOp' = [NoBusOp EXCEPT !.op = "subscribe", !.prefix = eventPrefix,
                                !.handler = handler, !.pre = subscribers,
                                !.missed = JustPublishedFor(eventPrefix)]
    /\ UNCHANGED notBus

\* a call of a closure subscribe returned: () => this.unsubscribe(prefix, handler)
Unsubscribe(k) ==
    /\ k <= Len(unsubFns)
    /\ subscribers' = unsubscribe(subscribers, unsubFns[k].prefix,
                                  unsubFns[k].handler)
    /\ unsubFns' = [unsubFns EXCEPT ![k].called = TRUE]
    /\ busOp' = [NoBusOp EXCEPT !.op = "unsubscribe",
                                !.prefix = unsubFns[k].prefix,
                                !.handler = unsubFns[k].handler,
                                !.pre = subscribers, !.fn = k,
                                !.again = unsubFns[k].called]
    /\ UNCHANGED notBus

\* publish(type, data); throwers are the handlers that throw on this event
Publish(type, data, throwers) ==
    /\ busOp' = [NoBusOp EXCEPT
                    !.op = "publish", !.type = type, !.data = data,
                    !.pre = subscribers,
                    !.invoked = publishLoop(Registrations(subscribers), type,
                                            data, throwers)]
    /\ UNCHANGED <<subscribers, unsubFns>>
    /\ UNCHANGED notBus

\* the handlers the bus holds; only they can throw in a publish
RegisteredHandlers ==
    {Registrations(subscribers)[i].handler :
        i \in 1..Len(Registrations(subscribers))}

BusNext ==
    \/ \E p \in Prefixes, h \in Handlers : Subscribe(p, h)
    \/ \E k \in 1..MaxSubscribes : Unsubscribe(k)
    \/ \E t \in Topics, d \in Payloads, th \in SUBSET RegisteredHandlers :
          Publish(t, d, th)

(***************************************************************************)
(* Concurrent Aggregator: queryNrqlsByService's PromisePool                *)
(***************************************************************************)
\* bound of the model: the largest dashboards list
MaxDashboards == 6

\* private readonly MAX_CONCURRENCY = 5
MAX_CONCURRENCY == 5
\* a limit one above the configured one (mutant for C5)
PoolConcurrencyOffByOne == MAX_CONCURRENCY + 1
\* PromisePool.withConcurrency(this.MAX_CONCURRENCY)
PoolConcurrency == MAX_CONCURRENCY

Min(a, b) == IF a < b THEN a ELSE b

\* The task given to process(): getDashboardDetails under try/catch.  A
\* failed detail fetch is logged and the task returns [], so the task itself
\* never rejects; otherwise it returns the dashboard's NRQL queries.
DashboardTask(dashboard, detailsOk) ==
    [rejected |-> FALSE,
     value |-> IF detailsOk THEN <<[dashboardGuid |-> dashboard]>> ELSE <<>>]

\* The pool starts items in input order while fewer than the limit are in
\* flight: the active set and next index after filling the free slots.
RECURSIVE PoolFill(_, _, _, _)
PoolFill(active, next, n, limit) ==
    IF next <= n /\ Cardinality(active) < limit
      THEN PoolFill(active \cup {next}, next + 1, n, limit)
      ELSE [active |-> active, next |-> next]

\* A settled task: a fulfilled one is pushed on results, a rejected one on
\* errors.
PoolSave(results, errors, item, outcome) ==
    [results |-> IF outcome.rejected THEN results
                 ELSE Append(results, [item |-> item, value |-> outcome.value]),
     errors |-> IF outcome.rejected THEN Append(errors, item) ELSE errors]

PoolInit ==
    /\ poolPc = "idle"
    /\ dashboards = 0
    /\ poolNext = 1
    /\ poolActive = {}
    /\ poolResults = <<>>
    /\ poolErrors = <<>>
    /\ poolStarted = <<>>
    /\ poolFailed = {}

\* the items from..to - 1, in order
Interval(from, to) == [k \in 1..(to - from) |-> from + k - 1]

\* queryNrqlsByService after queryDashboards returned n dashboards:
\* PromisePool.withConcurrency(...).for(dashboards).process(task)
QueryNrqlsByService(n) ==
    LET f == PoolFill({}, 1, n, PoolConcurrency)
    IN  /\ poolPc = "idle"
        /\ poolPc' = "running"
        /\ dashboards' = n
        /\ poolActive' = f.active
        /\ poolNext' = f.next
        /\ poolResults' = <<>>
        /\ poolErrors' = <<>>
        /\ poolStarted' = Interval(1, f.next)
        /\ poolFailed' = {}
        /\ UNCHANGED notPool

\* A variant in which a failed detail fetch ends the batch: nothing more is
\* started and the tasks in flight are abandoned.
DetailSettlesFailureEndsBatch(i, detailsOk) ==
    LET saved == PoolSave(poolResults, poolErrors, i, DashboardTask(i, detailsOk))
        f == IF detailsOk
               THEN PoolFill(poolActive \ {i}, poolNext, dashboards, PoolConcurrency)
               ELSE [active |-> {}, next |-> dashboards + 1]
    IN  /\ poolPc = "running"
        /\ i \in poolActive
        /\ poolResults' = saved.results
        /\ poolErrors' = saved.errors
        /\ poolActive' = f.active
        /\ poolNext' = f.next
        /\ poolStarted' = IF detailsOk THEN poolStarted \o Interval(poolNext, f.next)
                                       ELSE poolStarted
        /\ poolFailed' = IF detailsOk THEN poolFailed ELSE poolFailed \cup {i}
        /\ UNCHANGED <<poolPc, dashboards>>
        /\ UNCHANGED notPool

\* getDashboardDetails for item i settles; the task returns, the pool saves
\* its outcome and starts the next waiting item.
DetailSettles(i, detailsOk) ==
    LET saved == PoolSave(poolResults, poolErrors, i, DashboardTask(i, detailsOk))
        f == PoolFill(poolActive \ {i}, poolNext, dashboards, PoolConcurrency)
    IN  /\ poolPc = "running"
        /\ i \in poolActive
        /\ poolResults' = saved.results
        /\ poolErrors' = saved.errors
        /\ poolActive' = f.active
        /\ poolNext' = f.next
        /\ poolStarted' = poolStarted \o Interval(poolNext, f.next)
        /\ poolFailed' = IF detailsOk THEN poolFailed ELSE poolFailed \cup {i}
        /\ UNCHANGED <<poolPc, dashboards>>
        /\ UNCHANGED notPool

\* process() resolves once no task is in flight and none is waiting
PoolResolves ==
    /\ poolPc = "running"
    /\ poolActive = {}
    /\ poolNext > dashboards
    /\ poolPc' = "resolved"
    /\ UNCHANGED <<dashboards, poolNext, poolActive, poolResults, poolErrors,
                   poolStarted, poolFailed>>
    /\ UNCHANGED notPool

PoolNext ==
    \/ \E n \in 0..MaxDashboards : QueryNrqlsByService(n)
    \/ \E i \in 1..MaxDashboards, ok \in BOOLEAN : DetailSettles(i, ok)
    \/ PoolResolves

(***************************************************************************)
(* Framed Transport: StdioTransport over the SDK's ReadBuffer              *)
(***************************************************************************)
\* bounds of the model: the lines the peer writes, the close() calls made
MaxLines == 3
MaxCloses == 2

\* Bytes are characters; a message on the wire is its JSON text and "\n".
Newline == "\n"
DocA == <<"{", "a", "}">>
DocB == <<"{", "b", "}">>
DocTruncated == <<"{", "a">>
\* a document with an unescaped newline inside it
DocEmbeddedNewline == <<"{", Newline, "b", "}">>
Lines == {DocA, DocB, DocTruncated, DocEmbeddedNewline}
\* the JSON texts that parse to a protocol message
JsonDocs == {DocA, DocB}

\* deserializeMessage(line): JSON.parse and schema check; the message is
\* the content of the document, a malformed line throws.
deserializeMessage(line) ==
    IF line \in JsonDocs THEN [ok |-> TRUE, message |-> line[2]]
                         ELSE [ok |-> FALSE, message |-> ""]

\* buffer.indexOf("\n"): 0 when there is none
IndexOfNewline(buf) ==
    IF \E i \in 1..Len(buf) : buf[i] = Newline
      THEN CHOOSE i \in 1..Len(buf) :
               buf[i] = Newline /\ \A j \in 1..(i - 1) : buf[j] # Newline
      ELSE 0

\* ReadBuffer.readMessage(): null when no newline has arrived; otherwise
\* the bytes up to the first newline are taken off the buffer and parsed,
\* which throws for a malformed line.
readMessage(buf) ==
    LET idx == IndexOfNewline(buf)
        line == SubSeq(buf, 1, idx - 1)
        parsed == deserializeMessage(line)
    IN  IF idx = 0
          THEN [kind |-> "null", buffer |-> buf, message |-> "", line |-> <<>>]
          ELSE [kind |-> IF parsed.ok THEN "message" ELSE "throws",
                buffer |-> SubSeq(buf, idx + 1, Len(buf)),
                message |-> parsed.message, line |-> line]

\* processReadBuffer reading one message per data event, an if in place of
\* the while (mutant for C6).
processOnlyFirstMessage(buf, got, errs) ==
    LET m == readMessage(buf)
    IN  [buffer |-> m.buffer,
         received |-> IF m.kind = "message" THEN Append(got, m.message) ELSE got,
         errors |-> IF m.kind = "throws" THEN Append(errs, m.line) ELSE errs]

\* processReadBuffer with the try/catch around the loop instead of inside
\* it: a throw is reported and ends the processing of this chunk (mutant
\* for C16).
RECURSIVE processStopsAtError(_, _, _)
processStopsAtError(buf, got, errs) ==
    LET m == readMessage(buf)
    IN  CASE m.kind = "null" -> [buffer |-> buf, received |-> got, errors |-> errs]
          [] m.kind = "throws" ->
                [buffer |-> m.buffer, received |-> got,
                 errors |-> Append(errs, m.line)]
          [] OTHER -> processStopsAtError(m.buffer, Append(got, m.message), errs)

\* processReadBuffer: readMessage() until it returns null; a message goes
\* to onmessage, a throw goes to onerror and the loop goes on.
RECURSIVE processReadBuffer(_, _, _)
processReadBuffer(buf, got, errs) ==
    LET m == readMessage(buf)
    IN  IF m.kind = "null"
          THEN [buffer |-> buf, received |-> got, errors |-> errs]
          ELSE processReadBuffer(
                   m.buffer,
                   IF m.kind = "message" THEN Append(got, m.message) ELSE got,
                   IF m.kind = "throws" THEN Append(errs, m.line) ELSE errs)

\* processReadBuffer with an onmessage callback that calls close() in its
\* k-th invocation: close() clears the read buffer while the loop is
\* running, and the loop goes on to its next readMessage().  closed tells
\* whether close() has been called, after counts the messages given to
\* onmessage after it.
RECURSIVE processWithClosingCallback(_, _, _, _, _, _)
processWithClosingCallback(buf, got, errs, k, closed, after) ==
    LET m == readMessage(buf)
    IN  CASE m.kind = "null" ->
                [buffer |-> buf, received |-> got, errors |-> errs,
                 closed |-> closed, afterClose |-> after]
          [] m.kind = "throws" ->
                processWithClosingCallback(m.buffer, got,
                                           Append(errs, m.line), k, closed,
                                           after)
          [] OTHER ->
                processWithClosingCallback(
                    IF k = 1 THEN <<>> ELSE m.buffer,
                    Append(got, m.message), errs,
                    IF k > 0 THEN k - 1 ELSE 0,
                    closed \/ k = 1,
                    IF closed THEN after + 1 ELSE after)

\* the record of a transport call: what was called, whether it threw, the
\* listener registration and close() count it found, and the messages it
\* gave to onmessage after a close() made during it
TransportCall(op, threw) ==
    [op |-> op, threw |-> threw, preListening |-> tListening,
     preCloses |-> closeCalls, afterClose |-> 0]

TransportInit ==
    /\ tStarted = FALSE
    /\ tListening = FALSE
    /\ otherListeners = 0
    /\ stdinPaused = FALSE
    /\ readBuffer = <<>>
    /\ wire = <<>>
    /\ sentLines = <<>>
    /\ received = <<>>
    /\ errorsReported = <<>>
    /\ closeCount = 0
    /\ closeCalls = 0
    /\ transportOp = [op |-> "none", threw |-> FALSE, preListening |-> FALSE,
                      preCloses |-> 0, afterClose |-> 0]

\* start()
TransportStart ==
    /\ transportOp' = TransportCall("start", tStarted)
    /\ tStarted' = TRUE
    /\ tListening' = (tListening \/ ~tStarted)
    /\ UNCHANGED <<otherListeners, stdinPaused, readBuffer, wire, sentLines,
                   received, errorsReported, closeCount, closeCalls>>
    /\ UNCHANGED notTransport

\* The peer writes one more line and its newline.
PeerWrites(line) ==
    /\ Len(sentLines) < MaxLines
    /\ sentLines' = Append(sentLines, line)
    /\ wire' = wire \o line \o <<Newline>>
    /\ UNCHANGED <<tStarted, tListening, otherListeners, stdinPaused,
                   readBuffer, received, errorsReported, closeCount, closeCalls,
                   transportOp>>
    /\ UNCHANGED notTransport

\* stdin emits "data" with the next n bytes: _ondata appends the chunk and
\* runs processReadBuffer.
OnData(n) ==
    LET r == processReadBuffer(readBuffer \o SubSeq(wire, 1, n),
                               received, errorsReported)
    IN  /\ tListening
        /\ n <= Len(wire)
        /\ wire' = SubSeq(wire, n + 1, Len(wire))
        /\ readBuffer' = r.buffer
        /\ received' = r.received
        /\ errorsReported' = r.errors
        /\ transportOp' = TransportCall("data", FALSE)
        /\ UNCHANGED <<tStarted, tListening, otherListeners, stdinPaused,
                       sentLines, closeCount, closeCalls>>
        /\ UNCHANGED notTransport

\* stdin emits "data" with the next n bytes and the onmessage callback
\* calls close() in its k-th invocation of this event.
OnDataCallbackCloses(n, k) ==
    LET r == processWithClosingCallback(readBuffer \o SubSeq(wire, 1, n),
                                        received, errorsReported, k, FALSE, 0)
    IN  /\ tListening
        /\ n <= Len(wire)
        /\ closeCalls < MaxCloses
        /\ r.closed
        /\ wire' = SubSeq(wire, n + 1, Len(wire))
        /\ readBuffer' = r.buffer
        /\ received' = r.received
        /\ errorsReported' = r.errors
        /\ tListening' = FALSE
        /\ stdinPaused' = (stdinPaused \/ otherListeners = 0)
        /\ closeCalls' = closeCalls + 1
        /\ closeCount' = closeCount + 1
        /\ transportOp' = [TransportCall("dataClose", FALSE) EXCEPT
                              !.afterClose = r.afterClose]
        /\ UNCHANGED <<tStarted, otherListeners, sentLines>>
        /\ UNCHANGED notTransport

\* close() that pauses stdin whatever listeners remain on it
TransportCloseAlwaysPauses ==
    /\ tListening' = FALSE
    /\ stdinPaused' = TRUE
    /\ readBuffer' = <<>>
    /\ closeCalls < MaxCloses
    /\ closeCalls' = closeCalls + 1
    /\ closeCount' = closeCount + 1
    /\ transportOp' = TransportCall("close", FALSE)
    /\ UNCHANGED <<tStarted, otherListeners, wire, sentLines, received,
                   errorsReported>>
    /\ UNCHANGED notTransport

\* close(): off("data", _ondata), off("error", _onerror), pause() when
\* listenerCount("data") is 0, clear the read buffer, onclose.
TransportClose ==
    /\ tListening' = FALSE
    /\ stdinPaused' = (stdinPaused \/ otherListeners = 0)
    /\ readBuffer' = <<>>
    /\ closeCalls < MaxCloses
    /\ closeCalls' = closeCalls + 1
    /\ closeCount' = closeCount + 1
    /\ transportOp' = TransportCall("close", FALSE)
    /\ UNCHANGED <<tStarted, otherListeners, wire, sentLines, received,
                   errorsReported>>
    /\ UNCHANGED notTransport

\* Other code adds or removes its own "data" listener on stdin.
OtherListenerToggles ==
    /\ otherListeners' = 1 - otherListeners
    /\ UNCHANGED <<tStarted, tListening, stdinPaused, readBuffer, wire,
                   sentLines, received, errorsReported, closeCount, closeCalls,
                   transportOp>>
    /\ UNCHANGED notTransport

TransportNext ==
    \/ TransportStart
    \/ \E line \in Lines : PeerWrites(line)
    \/ \E n \in 1..Len(wire) : OnData(n)
    \/ \E n \in 1..Len(wire), k \in 1..MaxLines : OnDataCallbackCloses(n, k)
    \/ TransportClose
    \/ OtherListenerToggles

(***************************************************************************)
(* Framed Transport, outbound: StdioTransport.send over stdout             *)
(***************************************************************************)
\* bound of the model: the send calls made
MaxSends == 3

Messages == {"a", "b"}

\* serializeMessage(message): JSON.stringify(message) + "\n"
serializeMessage(message) == <<"{", message, "}", Newline>>

\* send with the promise resolved whatever write returned, no "drain"
\* listener registered (mutant for C13).
sendIgnoresBackpressure(written, message, accepted) ==
    [written |-> written \o serializeMessage(message), resolved |-> TRUE]

\* send(message) up to the return of the promise executor: the serialized
\* message is written; the promise is resolved at once if write returned
\* true, and otherwise by a once("drain") listener.
send(written, message, accepted) ==
    [written |-> written \o serializeMessage(message), resolved |-> accepted]

StdoutInit ==
    /\ stdoutWritten = <<>>
    /\ needDrain = FALSE
    /\ drains = 0
    /\ sends = <<>>

\* send(message); accepted is what stdout.write returned.  The stream takes
\* the chunk either way and owes a "drain" after returning false.
TransportSend(message, accepted) ==
    LET r == send(stdoutWritten, message, accepted)
    IN  /\ Len(sends) < MaxSends
        /\ stdoutWritten' = r.written
        /\ needDrain' = (needDrain \/ ~accepted)
        /\ sends' = Append(sends, [message |-> message, accepted |-> accepted,
                                   resolved |-> r.resolved, calledAt |-> drains,
                                   resolvedAt |-> IF r.resolved THEN drains ELSE -1])
        /\ UNCHANGED drains
        /\ UNCHANGED notStdout

\* stdout emits "drain": every once("drain", resolve) listener runs
StdoutDrain ==
    /\ needDrain
    /\ needDrain' = FALSE
    /\ drains' = drains + 1
    /\ sends' = [i \in 1..Len(sends) |->
                    IF sends[i].resolved THEN sends[i]
                    ELSE [sends[i] EXCEPT !.resolved = TRUE,
                                          !.resolvedAt = drains + 1]]
    /\ UNCHANGED stdoutWritten
    /\ UNCHANGED notStdout

SendNext ==
    \/ \E m \in Messages, accepted \in BOOLEAN : TransportSend(m, accepted)
    \/ StdoutDrain

(***************************************************************************)
(* McpServer.registerSchemaUpdateHandler: the handler subscribed to         *)
(* SCHEMA_UPDATED, which notifies the client of the resources that changed  *)
(***************************************************************************)
\* bound of the model: the update events published
MaxEvents == 3

\* EventType.SCHEMA_UPDATED = "schema/updated"
SCHEMA_UPDATED ==
    <<"s", "c", "h", "e", "m", "a", "/", "u", "p", "d", "a", "t", "e", "d">>

\* What one server.sendResourceUpdated({ uri }) call does: the notification
\* is accepted, the call throws, or the promise it returns rejects (nobody
\* awaits it).
SendOutcomes == {"ok", "throws", "rejects"}

\* resourceUris for a table: the table's resource, then the schema list
ResourceUris(tableName) ==
    <<[resource |-> "table", table |-> tableName],
      [resource |-> "list", table |-> "-"]>>

\* A handler that notifies of the table's resource alone.
handlerNotifiesTableOnly(tableName, outs) ==
    [attempts |-> <<[uri |-> ResourceUris(tableName)[1], outcome |-> outs[1]]>>,
     threw |-> outs[1] = "throws"]

\* the handler's for loop from the i-th uri on: one sendResourceUpdated per
\* uri; a call that throws ends the handler
RECURSIVE NotifyLoop(_, _, _)
NotifyLoop(uris, outs, i) ==
    IF i > Len(uris) THEN [attempts |-> <<>>, threw |-> FALSE]
    ELSE IF outs[i] = "throws"
      THEN [attempts |-> <<[uri |-> uris[i], outcome |-> outs[i]]>>,
            threw |-> TRUE]
      ELSE LET rest == NotifyLoop(uris, outs, i + 1)
           IN  [attempts |-> <<[uri |-> uris[i], outcome |-> outs[i]]>>
                               \o rest.attempts,
                threw |-> rest.threw]

\* the handler: (payload) => { for (const uri of resourceUris) send }
schemaUpdateHandler(tableName, outs) ==
    NotifyLoop(ResourceUris(tableName), outs, 1)

NoNotifyOp ==
    [table |-> "-", attempts |-> <<>>, handlerThrew |-> FALSE, invoked |-> <<>>]

NotifyInit ==
    /\ notified = <<>>
    /\ eventsPublished = 0
    /\ notifyOp = NoNotifyOp

\* A cache operation calls eventBus.publish(SCHEMA_UPDATED, tableName) with
\* the server's handler subscribed; outs are the outcomes of the handler's
\* sends.
PublishSchemaUpdated(tableName, outs) ==
    LET h == schemaUpdateHandler(tableName, outs)
        regs == <<[prefix |-> SCHEMA_UPDATED, handler |-> "schemaUpdateHandler"]>>
        inv == publishLoop(regs, SCHEMA_UPDATED, tableName,
                           IF h.threw THEN {"schemaUpdateHandler"} ELSE {})
        accepted == SelectSeq(h.attempts, LAMBDA a : a.outcome = "ok")
    IN  /\ eventsPublished < MaxEvents
        /\ eventsPublished' = eventsPublished + 1
        /\ notified' = notified \o [k \in 1..Len(accepted) |-> accepted[k].uri]
        /\ notifyOp' = [table |-> tableName, attempts |-> h.attempts,
                        handlerThrew |-> h.threw, invoked |-> inv]
        /\ UNCHANGED notNotify

NotifyNext ==
    \E tn \in TableNames, outs \in [1..2 -> SendOutcomes] :
        PublishSchemaUpdated(tn, outs)

(***************************************************************************)
(* ServiceContainer: service instances kept in a Map keyed by the name of   *)
(* the service type                                                         *)
(***************************************************************************)
\* bound of the model: the NewRelicLogsService instances constructed
MaxConstructed == 2

\* A service type is a constructor: a class and the name it carries. Two
\* classes can carry one name.
NewRelicLogsService == [class |-> 1, name |-> "NewRelicLogsService"]
ServiceTypes ==
    {NewRelicLogsService,
     [class |-> 2, name |-> "ServiceA"],
     [class |-> 3, name |-> "ServiceA"]}

ServiceNames == {t.name : t \in ServiceTypes}

\* the instances callers hand to register
CallerInstances == {[by |-> "caller", id |-> 1], [by |-> "caller", id |-> 2]}
NoInstance == [by |-> "none", id |-> 0]

\* has(): this.services.has(serviceType.name)
has(svc, serviceType) == svc[serviceType.name] # NoInstance

\* get(): the instance stored under the type's name if there is one; else
\* a new NewRelicLogsService when that is the type and the configuration is
\* set, stored under the name; else it throws.
get(svc, config, made, serviceType) ==
    IF svc[serviceType.name] # NoInstance
      THEN [threw |-> FALSE, result |-> svc[serviceType.name],
            services |-> svc, made |-> FALSE]
      ELSE IF serviceType = NewRelicLogsService /\ config
        THEN LET service == [by |-> "new", id |-> made + 1]
             IN  [threw |-> FALSE, result |-> service,
                  services |-> [svc EXCEPT ![serviceType.name] = service],
                  made |-> TRUE]
        ELSE [threw |-> TRUE, result |-> NoInstance, services |-> svc,
              made |-> FALSE]

\* the record of a container call: what it was called with, what it did,
\* and what the container held before it
ContainerCall(op, serviceType, r) ==
    [op |-> op, type |-> serviceType, threw |-> r.threw, result |-> r.result,
     made |-> r.made, pre |-> services, preFor |-> instanceFor,
     preRegistered |-> everRegistered, config |-> newRelicConfig]

NoContainerOp ==
    [op |-> "none", type |-> NewRelicLogsService, threw |-> FALSE,
     result |-> NoInstance, made |-> FALSE,
     pre |-> [n \in ServiceNames |-> NoInstance],
     preFor |-> [t \in ServiceTypes |-> NoInstance],
     preRegistered |-> {}, config |-> FALSE]

\* new ServiceContainer(): no configuration unless one is passed
ContainerInit ==
    /\ services = [n \in ServiceNames |-> NoInstance]
    /\ newRelicConfig = FALSE
    /\ constructed = 0
    /\ instanceFor = [t \in ServiceTypes |-> NoInstance]
    /\ everRegistered = {}
    /\ containerOp = NoContainerOp

\* new ServiceContainer(config): a container replaces the one in use
NewServiceContainer(config) ==
    /\ services' = [n \in ServiceNames |-> NoInstance]
    /\ newRelicConfig' = config
    /\ instanceFor' = [t \in ServiceTypes |-> NoInstance]
    /\ everRegistered' = {}
    /\ containerOp' = [NoContainerOp EXCEPT !.op = "new", !.config = config]
    /\ UNCHANGED constructed
    /\ UNCHANGED notContainer

ContainerGet(serviceType) ==
    LET r == get(services, newRelicConfig, constructed, serviceType)
    IN  /\ r.made => constructed < MaxConstructed
        /\ services' = r.services
        /\ constructed' = IF r.made THEN constructed + 1 ELSE constructed
        /\ instanceFor' = IF r.made
                            THEN [instanceFor EXCEPT ![serviceType] = r.result]
                            ELSE instanceFor
        /\ containerOp' = ContainerCall("get", serviceType, r)
        /\ UNCHANGED <<newRelicConfig, everRegistered>>
        /\ UNCHANGED notContainer

\* register(): this.services.set(serviceType.name, instance)
ContainerRegister(serviceType, instance) ==
    /\ services' = [services EXCEPT ![serviceType.name] = instance]
    /\ instanceFor' = [instanceFor EXCEPT ![serviceType] = instance]
    /\ everRegistered' = everRegistered \cup {serviceType}
    /\ containerOp' = ContainerCall("register", serviceType,
                          [threw |-> FALSE, result |-> instance,
                           made |-> FALSE])
    /\ UNCHANGED <<newRelicConfig, constructed>>
    /\ UNCHANGED notContainer

\* clear(): this.services.clear()
ContainerClear ==
    /\ services' = [n \in ServiceNames |-> NoInstance]
    /\ instanceFor' = [t \in ServiceTypes |-> NoInstance]
    /\ containerOp' = ContainerCall("clear", NewRelicLogsService,
                          [threw |-> FALSE, result |-> NoInstance,
                           made |-> FALSE])
    /\ UNCHANGED <<newRelicConfig, constructed, everRegistered>>
    /\ UNCHANGED notContainer

ContainerNext ==
    \/ \E config \in BOOLEAN : NewServiceContainer(config)
    \/ \E t \in ServiceTypes : ContainerGet(t)
    \/ \E t \in ServiceTypes, i \in CallerInstances : ContainerRegister(t, i)
    \/ ContainerClear

(***************************************************************************)
(* Specifications: one per component, the others held at their initial     *)
(* state                                                                   *)
(***************************************************************************)
Init == LoggerInit /\ CacheInit /\ BusInit /\ PoolInit /\ TransportInit
        /\ StdoutInit /\ NotifyInit /\ ContainerInit

SpecLogger == Init /\ [][LoggerNext]_vars

\* Callers of the logger keep logging; nothing in the program calls
\* attachServer again after initLogger, so no attach is promised.
SpecLoggerFair ==
    /\ Init
    /\ [][LoggerNext]_vars
    /\ WF_vars(LogBuffered)
    /\ WF_vars(LogDirect)

SpecCache == Init /\ [][CacheNext]_vars

SpecCacheAdmin == Init /\ [][CacheAdminNext]_vars

\* The cache under one caller at a time where every remote execution
\* terminates (it returns or rejects).
SpecCacheFair ==
    /\ Init
    /\ [][CacheAdminNext]_vars
    /\ WF_vars(\E out \in RemoteOutcomes : LookupSettles("c1", out))
    /\ WF_vars(\E out \in RemoteOutcomes : MainSettles("c1", out))

SpecBus == Init /\ [][BusNext]_vars

SpecPool == Init /\ [][PoolNext]_vars

\* Every detail fetch in flight settles (the remote call succeeds, fails or
\* times out) and a process() that can resolve does.
SpecPoolFair ==
    /\ Init
    /\ [][PoolNext]_vars
    /\ \A i \in 1..MaxDashboards :
          WF_vars(\E ok \in BOOLEAN : DetailSettles(i, ok))
    /\ WF_vars(PoolResolves)

SpecTransport == Init /\ [][TransportNext]_vars

SpecSend == Init /\ [][SendNext]_vars

SpecNotify == Init /\ [][NotifyNext]_vars

SpecContainer == Init /\ [][ContainerNext]_vars

(***************************************************************************)
(* Claims about the Buffered Delivery Logger                               *)
(***************************************************************************)
\* C2: in every reachable state the LogBuffer's total size (the running
\* total and the bytes really held) is at most MAX_BUFFER_SIZE, whatever the
\* sizes of the entries logged.
C2_BufferBound ==
    /\ bufferSize <= MAX_BUFFER_SIZE
    /\ BufferBytes <= MAX_BUFFER_SIZE

\* C36: in every reachable state the running total getBufferSize() returns
\* equals the sum of the sizes of the entries in the buffer; it is never
\* negative and it is 0 whenever the buffer is empty.
C36_RunningTotalIsSumOfEntries ==
    /\ bufferSize = BufferBytes
    /\ bufferSize >= 0
    /\ bufferQueue = <<>> => bufferSize = 0

\* the sink accepted every entry the last operation offered to it
SinkAccepts ==
    \A k \in 1..Len(logOp.attempts) : logOp.attempts[k].outcome = "ok"

\* C32 as stated: if from some point on the attached sink accepts every
\* entry offered to it, the buffer eventually becomes empty.
C32_BufferEventuallyDelivered ==
    []((server # NoServer /\ []SinkAccepts) => <>(bufferQueue = <<>>))

\* the last operation was a log call whose entry was given to addToBuffer
LastLogWasBuffered ==
    /\ logOp.op = "log"
    /\ buffered # <<>>
    /\ buffered[Len(buffered)] = nextLogId

\* C30: entries are evicted oldest first and the new entry is always
\* appended: the buffer is a contiguous suffix of the entries buffered so
\* far, and after a buffered log call its last element is the entry just
\* logged.
C30_BufferIsSuffixEndingInNewest ==
    /\ \E k \in 0..Len(buffered) :
          Ids(bufferQueue) = SubSeq(buffered, k + 1, Len(buffered))
    /\ LastLogWasBuffered =>
          /\ bufferQueue # <<>>
          /\ bufferQueue[Len(bufferQueue)].id = nextLogId

\* a buffered log call that evicted the oldest entries and kept a newer one
C30_Witness ==
    /\ LastLogWasBuffered
    /\ Len(logOp.pre) >= 2
    /\ Len(bufferQueue) >= 2
    /\ Len(bufferQueue) <= Len(logOp.pre)
    /\ bufferQueue[1].id = logOp.pre[Len(logOp.pre)].id

\* The sends of the last attachServer, as positions of the queue it found.
AttachAttempts == logOp.attempts
LastAttempt == AttachAttempts[Len(AttachAttempts)]
StoppedBy(outcome) ==
    /\ logOp.op = "attach"
    /\ Len(AttachAttempts) > 0
    /\ LastAttempt.outcome = outcome

\* C9: attachServer records the sink and offers the buffered entries oldest
\* first, removing each entry the sink accepts; a not-connected failure
\* stops the flush, the failed entry and all later ones stay buffered in
\* their original order, and attachServer returns normally.
C9_AttachFlushesInOrder ==
    logOp.op = "attach" =>
        /\ server = logOp.sink
        /\ ~logOp.threw
        /\ Len(AttachAttempts) <= Len(logOp.pre)
        /\ \A i \in 1..Len(AttachAttempts) :
              /\ AttachAttempts[i].id = logOp.pre[i].id
              /\ AttachAttempts[i].outcome = "ok" =>
                    AttachAttempts[i].id \notin Range(Ids(bufferQueue))
        /\ (\A i \in 1..Len(AttachAttempts) : AttachAttempts[i].outcome = "ok") =>
              /\ Len(AttachAttempts) = Len(logOp.pre)
              /\ bufferQueue = <<>>
        /\ StoppedBy("NotConnected") =>
              /\ Ids(bufferQueue)
                   = SubSeq(Ids(logOp.pre), Len(AttachAttempts), Len(logOp.pre))
              /\ ~logOp.errorLogged

\* C9 witness: a flush that delivered an entry, was then stopped by a
\* not-connected failure and left two or more entries buffered.
C9_Witness ==
    /\ StoppedBy("NotConnected")
    /\ Len(AttachAttempts) >= 2
    /\ Len(bufferQueue) >= 2

\* C10 as stated: an entry whose delivery fails with an error other than
\* not-connected is dropped from the buffer and delivery continues with the
\* entries after it.
C10_OtherFailureDropsEntry ==
    logOp.op = "attach" =>
        \A i \in 1..Len(AttachAttempts) :
            AttachAttempts[i].outcome = "Other" =>
                /\ AttachAttempts[i].id \notin Range(Ids(bufferQueue))
                /\ i < Len(logOp.pre) => Len(AttachAttempts) > i

\* C10 amended: a failure other than not-connected is logged and stops the
\* flush; no entry is dropped: the failed entry and all later ones stay
\* buffered in their original order, and attachServer returns normally.
C10_OtherFailureStopsFlush ==
    StoppedBy("Other") =>
        /\ logOp.errorLogged
        /\ ~logOp.threw
        /\ Ids(bufferQueue)
             = SubSeq(Ids(logOp.pre), Len(AttachAttempts), Len(logOp.pre))
        /\ Len(delivered) + Len(bufferQueue) >= Len(logOp.pre)

\* C10 witness: a flush that delivered an entry, then met another error and
\* left two or more entries buffered.
C10_Witness ==
    /\ StoppedBy("Other")
    /\ Len(AttachAttempts) >= 2
    /\ Len(bufferQueue) >= 2

\* the buffer is what it was before the last operation, less entries
\* evicted from its front, plus the entry just logged at its end
LoggedEntryAppended ==
    /\ Len(bufferQueue) >= 1
    /\ bufferQueue[Len(bufferQueue)].id = nextLogId
    /\ \E k \in 0..Len(logOp.pre) :
          Ids(SubSeq(bufferQueue, 1, Len(bufferQueue) - 1))
            = Ids(SubSeq(logOp.pre, k + 1, Len(logOp.pre)))

\* C11: log with no server attached puts the entry at the end of the buffer
\* and calls no sink.  With a server attached it makes one send: if the send
\* returns the buffer is unchanged; on "Not connected" the entry is put at
\* the end of the buffer and log returns; on any other error the error
\* reaches the caller and the buffer is unchanged.
C11_LogPaths ==
    logOp.op = "log" =>
        /\ logOp.sink = NoServer =>
              /\ logOp.attempts = <<>>
              /\ ~logOp.threw
              /\ LoggedEntryAppended
        /\ logOp.sink # NoServer =>
              /\ Len(logOp.attempts) = 1
              /\ logOp.attempts[1].id = nextLogId
              /\ logOp.attempts[1].outcome = "ok" =>
                    /\ bufferQueue = logOp.pre
                    /\ ~logOp.threw
              /\ logOp.attempts[1].outcome = "NotConnected" =>
                    /\ LoggedEntryAppended
                    /\ ~logOp.threw
              /\ logOp.attempts[1].outcome = "Other" =>
                    /\ bufferQueue = logOp.pre
                    /\ logOp.threw

\* C11 witness: a log call whose send failed with "Not connected" and whose
\* entry went behind an entry already buffered.
C11_Witness ==
    /\ logOp.op = "log"
    /\ logOp.sink # NoServer
    /\ logOp.attempts[1].outcome = "NotConnected"
    /\ Len(logOp.pre) >= 1
    /\ Len(bufferQueue) = Len(logOp.pre) + 1

\* the entries waiting in the buffer when the i-th send of the last
\* operation was made, the entry being sent left out
WaitingAtAttempt(i) ==
    IF logOp.op = "attach" THEN SubSeq(logOp.pre, i + 1, Len(logOp.pre))
                           ELSE logOp.pre

\* C12 as stated: whatever the interleaving of log and attachServer calls
\* and whatever the sink does, no entry is accepted by a sink while an entry
\* logged before it is still waiting in the buffer.
C12_DeliveredInLogOrder ==
    \A i \in 1..Len(logOp.attempts) :
        logOp.attempts[i].outcome = "ok" =>
            \A j \in 1..Len(WaitingAtAttempt(i)) :
                WaitingAtAttempt(i)[j].id > logOp.attempts[i].id

(***************************************************************************)
(* Claims about the Schema Cache and the Prefetcher                        *)
(***************************************************************************)
Count(seq, x) == Cardinality({i \in 1..Len(seq) : seq[i] = x})

Settled(call) == call.pc = "done"
SettledGetSchema(call) == Settled(call) /\ call.kind = "getSchema"
\* the call ran executeNrqlQuery's schema check to its end
PrefetchOver(call) == call.pc \in {"awaitMain", "done"} /\ ~call.startedFresh

\* C1: a successful getTableSchema call that finds no fresh entry causes
\* exactly one remote describe-columns fetch, and one that finds a fresh
\* entry causes none and returns the cached list; so two calls inside one
\* TTL window cost one fetch in total and a call after expiresAt one more.
C1_OneFetchPerMiss ==
    \A c \in Callers :
        (SettledGetSchema(calls[c]) /\ calls[c].outcome = "ok") =>
            calls[c].remoteCalls = (IF calls[c].startedFresh THEN 0 ELSE 1)

\* C3: when a remote describe-columns fetch made for getTableSchema fails,
\* the call ends in that error, it has written no cache entry, and it made
\* no further remote attempt.
C3_FetchFailurePropagates ==
    \A c \in Callers :
        (/\ SettledGetSchema(calls[c])
         /\ (calls[c].failed # {} \/ calls[c].mainOutcome = "fail")) =>
            /\ calls[c].outcome = "error"
            /\ calls[c].stored = {}
            /\ calls[c].remoteCalls = 1

\* The table names a query references in a FROM clause
ReferencedTables(query) ==
    { LeadingIdent(query[i + 1]) :
        i \in {j \in 1..(Len(query) - 1) :
                  IsFromKeyword(query[j]) /\ LeadingIdent(query[j + 1]) # ""} }

\* C7: executeNrqlQuery with the schema check enabled issues one
\* describe-columns lookup for every distinct referenced table that has no
\* fresh entry when the check reaches it, none for a table that has one,
\* never two for one name, and none for a name the query does not reference.
C7_OneLookupPerDistinctTable ==
    \A c \in Callers :
        calls[c].pc # "idle" =>
            LET call == calls[c]
                query == IF call.kind = "getSchema"
                           THEN DescribeQuery(call.table) ELSE call.query
            IN  /\ \A i \in 1..Len(call.lookups) :
                      /\ call.lookups[i] \in ReferencedTables(query)
                      /\ Count(call.lookups, call.lookups[i]) = 1
                /\ PrefetchOver(call) =>
                      \A tn \in ReferencedTables(query) :
                          Count(call.lookups, tn)
                            = (IF tn \in call.skipped THEN 0 ELSE 1)

\* C7 witness: a settled query that names Events twice and Logs once, with
\* Events fresh and skipped and Logs looked up.
C7_Witness ==
    \E c \in Callers :
        /\ Settled(calls[c])
        /\ calls[c].query = QTwoTables
        /\ calls[c].skipped = {"Events"}
        /\ calls[c].lookups = <<"Logs">>

\* C8: a lookup that fails during the schema check stops neither the
\* remaining tables nor the user's query: every referenced table is still
\* processed, the query is sent, and the call's outcome is that of the
\* user's own remote query.
C8_PrefetchFailureIsAdvisory ==
    \A c \in Callers :
        LET call == calls[c]
        IN  /\ (call.pc = "awaitLookup" /\ call.failed # {}) =>
                  call.names[call.idx] \notin call.failed
            /\ (call.pc # "idle" /\ PrefetchOver(call)) =>
                  \A i \in 1..Len(call.names) :
                      \/ call.names[i] \in call.skipped
                      \/ call.names[i] \in Range(call.lookups)
            /\ (Settled(call) /\ ~call.startedFresh) =>
                  /\ call.mainOutcome # "none"
                  /\ call.outcome = (IF call.mainOutcome = "ok" THEN "ok" ELSE "error")

\* C8 witness: a query over two tables whose first lookup failed, whose
\* second table was still looked up, and which returned its result.
C8_Witness ==
    \E c \in Callers :
        /\ Settled(calls[c])
        /\ calls[c].kind = "query"
        /\ calls[c].failed = {"Events"}
        /\ calls[c].lookups = <<"Events", "Logs">>
        /\ calls[c].outcome = "ok"

\* C19 as stated: a getTableSchema(T) call that misses and whose fetch
\* succeeds has stored T with a new 24h window, has published exactly one
\* SCHEMA_UPDATED event, carrying T, and returns the fetched columns; one
\* that finds a fresh entry returns the cached columns, publishes no event
\* and makes no remote call.
\* C25: two getTableSchema(T) calls that overlap while T has no fresh entry
\* each issue their own remote execution, neither takes the other's; each
\* whose fetch succeeds returns its columns; and each completion writes T's
\* entry, so that after both the cache holds one fresh entry for T, the one
\* written by the later completion.
C25_OverlappingMissesFetchTwice ==
    \A c \in Callers :
        (SettledGetSchema(calls[c]) /\ calls[c].overlap) =>
            /\ ~calls[c].startedFresh
            /\ calls[c].remoteCalls >= 1
            /\ calls[c].mainOutcome # "none"
            /\ calls[c].mainOutcome = "ok" =>
                  /\ calls[c].outcome = "ok"
                  /\ schemaCache[calls[c].table] =
                        [present |-> TRUE, schema |-> calls[c].result,
                         timestamp |-> now,
                         expiresAt |-> now + CACHE_EXPIRATION_MS]
                  /\ isTableSchemaCached(schemaCache, calls[c].table, now)
                  /\ Count(cacheKeys, calls[c].table) = 1

\* the later of two overlapping misses has completed, the earlier one has
\* returned, and the entry is not the one a lookup of the keyset wrote
C25_Witness ==
    \E c \in Callers :
        /\ SettledGetSchema(calls[c]) /\ calls[c].overlap
        /\ calls[c].outcome = "ok"
        /\ \A o \in Callers \ {c} : calls[o].pc = "idle"
        /\ started = 2
        /\ calls[c].result # <<>>

\* C26 as stated: once a getTableSchema(T) that found T's entry expired has
\* settled, the expired entry is no longer stored (it was replaced by a
\* fresh one or, the fetch having failed, removed) and getCacheStats does
\* not report it.
C26_ExpiredEntryLeavesOnRead ==
    \A c \in Callers :
        (SettledGetSchema(calls[c]) /\ calls[c].foundExpired) =>
            LET stats == getCacheStats(schemaCache, cacheKeys, now)
            IN  /\ schemaCache[calls[c].table].present =>
                      isTableSchemaCached(schemaCache, calls[c].table, now)
                /\ \A k \in 1..Len(stats.cachedTables) :
                      stats.cachedTables[k].tableName = calls[c].table =>
                          stats.cachedTables[k].expiresIn > 0

\* every entry expires 24h after it was cached
C27_ExpiryIsCachedAtPlusTtl ==
    \A tn \in TableNames :
        schemaCache[tn].present =>
            schemaCache[tn].expiresAt
              = schemaCache[tn].timestamp + CACHE_EXPIRATION_MS

\* isTableSchemaCached answers true exactly when an entry exists and the
\* time is before its expiresAt
C27_FreshIffBeforeExpiry ==
    cacheOp.op = "isCached" =>
        (cacheOp.wasFresh <=>
            /\ schemaCache[cacheOp.table].present
            /\ now < schemaCache[cacheOp.table].expiresAt)

\* C27: in every reachable state every entry has expiresAt = cachedAt + 24h;
\* isTableSchemaCached(T) is true iff T has an entry and now < expiresAt (at
\* expiresAt itself the entry is stale); and the call changes no entry,
\* publishes nothing and starts no remote call.
C27_FreshnessIsPureAndExact ==
    /\ [](C27_ExpiryIsCachedAtPlusTtl /\ C27_FreshIffBeforeExpiry)
    /\ [][cacheOp'.op = "isCached" =>
            /\ schemaCache' = schemaCache
            /\ cacheKeys' = cacheKeys
            /\ calls' = calls
            /\ lastPublished' = <<>>]_vars

\* isTableSchemaCached asked about an entry at the instant it expires
C27_Witness ==
    /\ cacheOp.op = "isCached"
    /\ schemaCache[cacheOp.table].present
    /\ now = schemaCache[cacheOp.table].expiresAt
    /\ ~cacheOp.wasFresh

NoDuplicates(seq) == \A i, j \in 1..Len(seq) : seq[i] = seq[j] => i = j

\* C28 as stated: a stored column list and the list getTableSchema returns
\* have no duplicate names, and a list being stored is the list obtained
\* from the remote executor reduced to the first occurrence of each name.
C28_ColumnsAreDeduplicated ==
    /\ \A tn \in TableNames :
          schemaCache[tn].present => NoDuplicates(schemaCache[tn].schema)
    /\ \A c \in Callers :
          (SettledGetSchema(calls[c]) /\ calls[c].outcome = "ok") =>
              NoDuplicates(calls[c].result)
    /\ cacheOp.op = "store" =>
          schemaCache[cacheOp.table].schema = FilterFirst(cacheOp.schema, 1)

\* C29: clearTableSchemaCache(T) with an entry for T removes that entry,
\* leaves every other entry as it was and publishes one event, for T; with
\* no entry for T it leaves the cache as it was and publishes nothing.
C29_ClearRemovesOneEntry ==
    cacheOp.op = "clear" =>
        IF cacheOp.pre[cacheOp.table].present
          THEN /\ ~schemaCache[cacheOp.table].present
               /\ \A tn \in TableNames \ {cacheOp.table} :
                     schemaCache[tn] = cacheOp.pre[tn]
               /\ cacheKeys = SelectSeq(cacheOp.keys,
                                        LAMBDA k : k # cacheOp.table)
               /\ lastPublished = <<cacheOp.table>>
          ELSE /\ schemaCache = cacheOp.pre
               /\ cacheKeys = cacheOp.keys
               /\ lastPublished = <<>>

\* one of two entries has been cleared
C29_Witness ==
    /\ cacheOp.op = "clear"
    /\ cacheOp.pre[cacheOp.table].present
    /\ \E tn \in TableNames \ {cacheOp.table} : schemaCache[tn].present

\* a clear of a table that had no entry, beside an entry of another table
C29_WitnessNoEntry ==
    /\ cacheOp.op = "clear"
    /\ ~cacheOp.pre[cacheOp.table].present
    /\ \E tn \in TableNames : schemaCache[tn].present

C19_GetSchemaEvents ==
    \A c \in Callers :
        (SettledGetSchema(calls[c]) /\ calls[c].outcome = "ok") =>
            IF calls[c].startedFresh
              THEN /\ calls[c].published = <<>>
                   /\ calls[c].remoteCalls = 0
                   /\ calls[c].result = schemaCache[calls[c].table].schema
              ELSE /\ calls[c].published = <<calls[c].table>>
                   /\ schemaCache[calls[c].table]
                        = [present |-> TRUE, schema |-> calls[c].result,
                           timestamp |-> now,
                           expiresAt |-> now + CACHE_EXPIRATION_MS]

C17_ClearAllPublishesPerTable ==
    cacheOp.op = "clearAll" =>
        /\ \A tn \in TableNames : ~schemaCache[tn].present
        /\ cacheKeys = <<>>
        /\ Len(lastPublished) = Len(cacheOp.keys)
        /\ \A tn \in TableNames :
              Count(lastPublished, tn) = (IF tn \in Range(cacheOp.keys) THEN 1 ELSE 0)

\* C17 witness: clearAllSchemaCaches on a cache that held both tables, Logs
\* inserted before Events.
C17_Witness ==
    /\ cacheOp.op = "clearAll"
    /\ cacheOp.keys = <<"Logs", "Events">>
    /\ Len(lastPublished) = 2

\* the names the loop of checkAndCacheTableSchema has reached so far
NamesReached(call) ==
    SubSeq(call.names, 1,
           IF call.idx <= Len(call.names) THEN call.idx ELSE Len(call.names))

\* The lookups of a call are issued for the names that were not fresh, in
\* the order of their first appearance in the query; at most one is
\* outstanding, and none is once the call's own query has been sent.
LookupsInOrderOneAtATime(call) ==
    /\ call.names = extractTableNamesFromQuery(call.query)
    /\ call.lookups =
          SelectSeq(NamesReached(call), LAMBDA n : n \notin call.skipped)
    /\ call.pc = "awaitLookup" => call.lookupsSettled = Len(call.lookups) - 1
    /\ call.pc \in {"awaitMain", "done"} =>
          /\ call.lookupsSettled = Len(call.lookups)
          /\ call.idx = Len(call.names) + 1

C38_HandlersSeeTheChangeApplied ==
    /\ Len(handlerSaw) = Len(lastPublished)
    /\ lastPublished # <<>> => cacheOp.op \in {"store", "clear", "clearAll"}
    /\ \A i \in 1..Len(handlerSaw) :
          /\ handlerSaw[i].table = lastPublished[i]
          /\ cacheOp.op = "store" =>
                /\ handlerSaw[i].entry.present
                /\ now < handlerSaw[i].entry.expiresAt
          /\ cacheOp.op = "clear" => ~handlerSaw[i].entry.present
          /\ cacheOp.op = "clearAll" => handlerSaw[i].entries = 0

\* evictAll over two tables has just delivered its two events
C38_Witness ==
    /\ cacheOp.op = "clearAll"
    /\ Len(handlerSaw) = 2

\* a store has just delivered its event while another table was cached
C38_WitnessStore ==
    /\ cacheOp.op = "store"
    /\ Len(handlerSaw) = 1
    /\ handlerSaw[1].entries = 2

\* evict(T) of a cached T has just delivered its event
C38_WitnessEvict ==
    /\ cacheOp.op = "clear"
    /\ Len(handlerSaw) = 1

\* the tables named in the call's query that the prefetcher found not fresh
NonFreshNamed(call) == Range(call.names) \ call.skipped

\* C40: prefetching does not recurse: a lookup issued by the prefetcher is
\* one remote execution, so a call of executeNrqlQuery(q), and likewise a
\* getSchema(T) call, performs at most 1 + (number of distinct non-fresh
\* tables named in its query) remote executions, and it terminates when
\* each remote execution terminates.
C40_PrefetchIsBoundedAndTerminates ==
    /\ [](\A c \in Callers :
            calls[c].pc # "idle" =>
                /\ calls[c].remoteCalls
                      <= 1 + Cardinality(NonFreshNamed(calls[c]))
                /\ calls[c].remoteCalls
                      <= 1 + Cardinality(Range(FromMatches(calls[c].query, 1))))
    /\ \A c \in Callers :
          (calls[c].pc \in {"awaitLookup", "awaitMain"})
              ~> (calls[c].pc = "done")

\* a user query naming two tables, neither fresh, has settled after
\* 1 + 2 remote executions
C40_Witness ==
    \E c \in Callers :
        /\ calls[c].pc = "done"
        /\ calls[c].kind = "query"
        /\ Cardinality(NonFreshNamed(calls[c])) = 2
        /\ calls[c].remoteCalls = 3

\* a getSchema(T) call that found T not fresh has settled after 1 + 1
\* remote executions
C40_WitnessGetSchema ==
    \E c \in Callers :
        /\ calls[c].pc = "done"
        /\ calls[c].kind = "getSchema"
        /\ ~calls[c].startedFresh
        /\ calls[c].remoteCalls = 2

(***************************************************************************)
(* Claims about the Event Bus                                              *)
(***************************************************************************)
Invocations(prefix, handler) ==
    Cardinality({i \in 1..Len(busOp.invoked) :
                    /\ busOp.invoked[i].prefix = prefix
                    /\ busOp.invoked[i].handler = handler})

\* C4: whichever matching handlers throw, publish invokes every matching
\* handler once and returns normally, propagating no handler error.
C4_ThrowingHandlersAreIsolated ==
    busOp.op = "publish" =>
        /\ ~busOp.propagated
        /\ \A i \in 1..Len(Registrations(busOp.pre)) :
              LET r == Registrations(busOp.pre)[i]
              IN  StartsWith(busOp.type, r.prefix) =>
                      Invocations(r.prefix, r.handler) = 1

\* C4 witness: a publish whose first matching handler threw and which went
\* on to invoke another handler.
C4_Witness ==
    /\ busOp.op = "publish"
    /\ Len(busOp.invoked) >= 2
    /\ busOp.invoked[1].threw
    /\ ~busOp.invoked[2].threw

\* C31: when publish returns it has invoked every matching handler that
\* was registered when it was called and has left the bus as it was;
\* nothing is kept for later, so a subscribe or unsubscribe invokes no
\* handler, and a publish that no registration matches invokes nothing.
C31_PublishIsSynchronousAndUnqueued ==
    /\ busOp.op = "publish" =>
          /\ subscribers = busOp.pre
          /\ \A i \in 1..Len(Registrations(busOp.pre)) :
                LET r == Registrations(busOp.pre)[i]
                IN  StartsWith(busOp.type, r.prefix) =>
                        Invocations(r.prefix, r.handler) >= 1
          /\ (\A i \in 1..Len(Registrations(busOp.pre)) :
                 ~StartsWith(busOp.type, Registrations(busOp.pre)[i].prefix))
                => (busOp.invoked = <<>> /\ ~busOp.propagated)
    /\ busOp.op \in {"subscribe", "unsubscribe"} => busOp.invoked = <<>>

\* a handler subscribed right after an event its prefix matches was
\* published
C31_Witness ==
    /\ busOp.op = "subscribe"
    /\ busOp.missed
    /\ busOp.pre = <<>>

\* the registrations without the pair (prefix, handler)
Without(regs, prefix, handler) ==
    SelectSeq(regs, LAMBDA r : ~(r.prefix = prefix /\ r.handler = handler))

\* C21 as stated: the first call of the closure subscribe(p, h) returned
\* removes the registration (p, h) and no other; every other registration
\* keeps its place, registrations made later, a later subscribe(p, h)
\* included, are unaffected; and a further call of the same closure changes
\* nothing.
C21_UnsubscribeRemovesOwnRegistration ==
    busOp.op = "unsubscribe" =>
        /\ ~busOp.again =>
              Registrations(subscribers)
                = Without(Registrations(busOp.pre), busOp.prefix, busOp.handler)
        /\ busOp.again => subscribers = busOp.pre

\* p is a prefix of t, character by character
IsPlainPrefix(p, t) ==
    /\ Len(p) <= Len(t)
    /\ \A i \in 1..Len(p) : t[i] = p[i]

\* C20: publish(type, data) invokes each registration (prefix, handler) in
\* the bus exactly once, with { type, data }, if type starts with the prefix
\* as a plain string, and not at all otherwise; nothing else is invoked.
C20_PrefixMatchDelivery ==
    busOp.op = "publish" =>
        /\ \A i \in 1..Len(Registrations(busOp.pre)) :
              LET r == Registrations(busOp.pre)[i]
              IN  Invocations(r.prefix, r.handler)
                    = (IF IsPlainPrefix(r.prefix, busOp.type) THEN 1 ELSE 0)
        /\ \A k \in 1..Len(busOp.invoked) :
              /\ busOp.invoked[k].payload
                   = [type |-> busOp.type, data |-> busOp.data]
              /\ \E i \in 1..Len(Registrations(busOp.pre)) :
                    /\ Registrations(busOp.pre)[i].prefix = busOp.invoked[k].prefix
                    /\ Registrations(busOp.pre)[i].handler = busOp.invoked[k].handler

\* C20 witness: "ab" published to a bus holding "a", "a/" and "b/": only
\* the handler under "a" is invoked, although "a" is no path segment of "ab".
C20_Witness ==
    /\ busOp.op = "publish"
    /\ busOp.type = <<"a", "b">>
    /\ HasPrefix(busOp.pre, Str_a)
    /\ HasPrefix(busOp.pre, Str_a_slash)
    /\ HasPrefix(busOp.pre, Str_b_slash)
    /\ Len(busOp.invoked) = 1
    /\ busOp.invoked[1].prefix = Str_a

(***************************************************************************)
(* Claims about the Concurrent Aggregator                                  *)
(***************************************************************************)
\* C5: while the pool runs over the dashboards, never more than
\* MAX_CONCURRENCY (5) detail fetches are in flight.
C5_AtMostFiveInFlight == Cardinality(poolActive) <= MAX_CONCURRENCY

\* C5 witness: five tasks in flight while a sixth item waits, after one
\* fetch has failed and been replaced.
\* the items whose task has settled, in completion order
PoolFinished ==
    [k \in 1..Len(poolResults) |-> poolResults[k].item] \o poolErrors

\* Every started task is in flight until it settles, no item is started
\* twice, and the pool is full while items wait.
C22_NoCancelNoRestart ==
    /\ \A i \in 1..MaxDashboards :
          /\ Count(poolStarted, i) <= 1
          /\ Count(PoolFinished, i) <= Count(poolStarted, i)
    /\ poolPc = "running" =>
          /\ poolActive = Range(poolStarted) \ Range(PoolFinished)
          /\ Len(poolStarted) < dashboards =>
                Cardinality(poolActive) = MAX_CONCURRENCY

\* When process() has resolved, each of the N items was started exactly
\* once and has settled.
C22_ResolvedAfterAll ==
    poolPc = "resolved" =>
        \A i \in 1..dashboards :
            /\ Count(poolStarted, i) = 1
            /\ Count(PoolFinished, i) = 1

\* C22: for every number of items and every pattern of failures and
\* completion orders, each item's task is started exactly once, a failed
\* task neither cancels the tasks in flight nor keeps waiting items from
\* starting, the call resolves only after all N tasks have settled, and it
\* does resolve when every task settles.
C22_EachItemOnceThenResolves ==
    /\ [](C22_NoCancelNoRestart /\ C22_ResolvedAfterAll)
    /\ (poolPc = "running") ~> (poolPc = "resolved")

\* all items of a full batch settled, the first to settle having failed
\* while an item was still waiting
C22_Witness ==
    /\ poolPc = "resolved"
    /\ dashboards = MaxDashboards
    /\ dashboards > MAX_CONCURRENCY
    /\ Len(poolResults) = dashboards
    /\ poolResults[1].value = <<>>
    /\ poolResults[2].value # <<>>

\* C23 as stated: when k of the N detail fetches fail, the resolved call has
\* k entries in errors and N - k entries in results.
C23_FailuresAreRecorded ==
    poolPc = "resolved" =>
        /\ Len(poolErrors) = Cardinality(poolFailed)
        /\ Len(poolResults) = dashboards - Cardinality(poolFailed)

C5_Witness ==
    /\ poolPc = "running"
    /\ Cardinality(poolActive) = MAX_CONCURRENCY
    /\ dashboards > MAX_CONCURRENCY
    /\ \E k \in 1..Len(poolResults) : poolResults[k].value = <<>>

(***************************************************************************)
(* Claims about the ServiceContainer                                       *)
(***************************************************************************)
\* C35: once an instance exists for a type (registered for it, or made by
\* a first successful get), a get for that type returns that instance and
\* constructs nothing, until clear() or a new register for the type; after
\* clear() has() is false for every type and a get for a type the container
\* can construct makes a new instance; a get for a type it cannot construct
\* and that was never registered throws and leaves the container as it was.
C35_GetReturnsTheTypesInstance ==
    LET t == containerOp.type
        canConstruct == t = NewRelicLogsService /\ containerOp.config
    IN  /\ containerOp.op = "get" /\ containerOp.preFor[t] # NoInstance =>
              /\ ~containerOp.threw
              /\ containerOp.result = containerOp.preFor[t]
              /\ ~containerOp.made
        /\ containerOp.op = "get" /\ containerOp.preFor[t] = NoInstance
              /\ canConstruct =>
              /\ containerOp.made
              /\ containerOp.result \notin
                    {containerOp.pre[n] : n \in ServiceNames}
        /\ containerOp.op = "get" /\ ~canConstruct
              /\ t \notin containerOp.preRegistered =>
              /\ containerOp.threw
              /\ services = containerOp.pre
        /\ containerOp.op = "clear" =>
              \A u \in ServiceTypes : ~has(services, u)

(***************************************************************************)
(* Claims about the schema update handler                                  *)
(***************************************************************************)
AttemptsFor(uri) ==
    Cardinality({k \in 1..Len(notifyOp.attempts) : notifyOp.attempts[k].uri = uri})

C33_WitnessThrow ==
    /\ notifyOp.handlerThrew
    /\ Len(notifyOp.attempts) = 1
    /\ notifyOp.invoked[1].threw

(***************************************************************************)
(* Claims about the Framed Transport                                       *)
(***************************************************************************)
RECURSIVE Flatten(_)
Flatten(lines) ==
    IF lines = <<>> THEN <<>>
    ELSE Head(lines) \o <<Newline>> \o Flatten(Tail(lines))

\* the bytes handed to the data listener so far, whatever the chunking
FedBytes == SubSeq(Flatten(sentLines), 1, Len(Flatten(sentLines)) - Len(wire))
NewlinesIn(bytes) == Cardinality({i \in 1..Len(bytes) : bytes[i] = Newline})
WellFormedStream == \A i \in 1..Len(sentLines) : sentLines[i] \in JsonDocs

\* C6: for a stream of newline-terminated JSON messages, however it is cut
\* into chunks, onmessage has received exactly the messages whose newline
\* has arrived, once each and in stream order, and the bytes after the last
\* newline wait in the read buffer.
C6_FramingIgnoresChunking ==
    (tListening /\ WellFormedStream) =>
        LET k == NewlinesIn(FedBytes)
        IN  /\ received = [i \in 1..k |-> deserializeMessage(sentLines[i]).message]
            /\ errorsReported = <<>>
            /\ Flatten(SubSeq(sentLines, 1, k)) \o readBuffer = FedBytes

\* C6 witness: two messages delivered in order while the first bytes of a
\* third wait in the buffer.
C6_Witness ==
    /\ tListening
    /\ WellFormedStream
    /\ received = <<"a", "b">>
    /\ readBuffer = <<"{">>

\* the newline-terminated lines in a byte sequence, in order
RECURSIVE CompleteLines(_)
CompleteLines(bytes) ==
    LET idx == IndexOfNewline(bytes)
    IN  IF idx = 0 THEN <<>>
        ELSE <<SubSeq(bytes, 1, idx - 1)>>
             \o CompleteLines(SubSeq(bytes, idx + 1, Len(bytes)))

FedLines == CompleteLines(FedBytes)
WellFormedFed == SelectSeq(FedLines, LAMBDA l : l \in JsonDocs)
MalformedFed == SelectSeq(FedLines, LAMBDA l : l \notin JsonDocs)

\* C16: whatever malformed lines the received bytes contain, onerror has
\* been called once for each malformed line, every well-formed line that
\* has arrived, those after a malformed one included, has been given to
\* onmessage in stream order, and the transport is still listening.
C16_MalformedLineIsSkipped ==
    /\ tListening =>
          /\ received = [i \in 1..Len(WellFormedFed) |->
                            deserializeMessage(WellFormedFed[i]).message]
          /\ errorsReported = MalformedFed
    /\ (transportOp.op = "data" /\ transportOp.preListening) => tListening

\* C16 witness: the bytes of a truncated document and then of two
\* well-formed ones have all arrived; the error was reported and both
\* messages were delivered.
C16_Witness ==
    /\ tListening
    /\ transportOp.op = "data"
    /\ sentLines = <<DocTruncated, DocA, DocB>>
    /\ Len(wire) = 0
    /\ errorsReported = <<DocTruncated>>
    /\ received = <<"a", "b">>

\* C14 as stated: the lifecycle is Unstarted -> Listening -> Closed with
\* Closed terminal.  start() succeeds only on a transport that was never
\* started and never closed; a start() that fails registers no listener;
\* and once close() has been called the transport is never Listening again.
C14_ClosedIsTerminal ==
    /\ closeCalls > 0 => ~tListening
    /\ transportOp.op = "start" =>
          /\ ~transportOp.threw <=>
                (~transportOp.preListening /\ transportOp.preCloses = 0)
          /\ transportOp.threw => tListening = transportOp.preListening

\* C15 as stated: however many times close() is called, onclose is invoked
\* exactly once in total; and after a close() call the transport's listeners
\* are off stdin and the read buffer is empty.
C15_ClosedCallbackOnce ==
    /\ closeCalls >= 1 => closeCount = 1
    /\ transportOp.op = "close" =>
          /\ ~tListening
          /\ readBuffer = <<>>

\* C34: a close() call takes the transport's own listeners off stdin and
\* leaves the listeners of other code on it, and it pauses stdin if and
\* only if no other "data" listener remains on stdin after the removal.
C34_CloseRemovesOwnListenersOnly ==
    [][closeCalls' # closeCalls =>
          /\ ~tListening'
          /\ otherListeners' = otherListeners
          /\ stdinPaused' = (stdinPaused \/ otherListeners' = 0)]_vars

\* a started transport was closed while other code listened on a stdin
\* that was flowing, and stdin is still flowing
C34_Witness ==
    /\ transportOp.op = "close"
    /\ transportOp.preListening
    /\ otherListeners = 1
    /\ ~stdinPaused

\* a started transport was closed with no other listener: stdin is paused
C34_WitnessPaused ==
    /\ transportOp.op = "close"
    /\ transportOp.preListening
    /\ otherListeners = 0
    /\ stdinPaused

\* C39: once close() has been called on a transport, no further message
\* is given to onmessage; this includes a close() made from inside the
\* onmessage callback while complete messages are still in the read buffer.
C39_NoMessageAfterClose ==
    /\ [][closeCalls > 0 => received' = received]_vars
    /\ [](transportOp.afterClose = 0)

\* close() was called inside onmessage while a complete message was still
\* in the read buffer, and that message was not delivered
C39_WitnessReentrant ==
    /\ transportOp.op = "dataClose"
    /\ Len(wire) = 0
    /\ Len(sentLines) = 2
    /\ WellFormedStream
    /\ Len(received) = 1
    /\ readBuffer = <<>>

RECURSIVE SerializedInOrder(_)
SerializedInOrder(calls_) ==
    IF calls_ = <<>> THEN <<>>
    ELSE serializeMessage(Head(calls_).message) \o SerializedInOrder(Tail(calls_))

\* C13: stdout has been given the serialized bytes of every send exactly
\* once, in the order of the send calls; a send whose write returned false
\* is not complete before the next "drain" after its call and is complete
\* from that "drain" on; a send whose write returned true is complete at
\* once.
C13_SendWritesOnceAndAwaitsDrain ==
    /\ stdoutWritten = SerializedInOrder(sends)
    /\ \A i \in 1..Len(sends) :
          /\ sends[i].accepted =>
                sends[i].resolved /\ sends[i].resolvedAt = sends[i].calledAt
          /\ ~sends[i].accepted =>
                /\ sends[i].resolved <=> drains > sends[i].calledAt
                /\ sends[i].resolved => sends[i].resolvedAt = sends[i].calledAt + 1

\* C13 witness: two sends refused by the sink and completed by one drain,
\* then a third send still waiting for the next one.
C13_Witness ==
    /\ Len(sends) = 3
    /\ \A i \in 1..3 : ~sends[i].accepted
    /\ sends[1].resolved /\ sends[2].resolved /\ ~sends[3].resolved
    /\ sends[1].resolvedAt = sends[2].resolvedAt

====
